---------------------------- MODULE Spec2Model ----------------------------
(***************************************************************************)
(* Model of the YJOS field-data extraction engine (src/yjos_extractor.py)  *)
(* and of the part of the dashboard that calls it (src/app.py).            *)
(*                                                                         *)
(* Number representation.  Python floats are modelled in fixed point:      *)
(*   hours (work_hours, downtime, avg_deployment_time) in hundredths of an *)
(*   hour; values produced by round(x, 2) in hundredths; values produced   *)
(*   by round(x, 1) in tenths; drill times in tenths of a minute.          *)
(* Python's None is the string None_; an unhandled exception of a metric   *)
(* function is the value ZeroDivisionError in the field that raised it.    *)
(***************************************************************************)
EXTENDS Integers, Sequences, FiniteSets, TLC

VARIABLES
    job_summary,        \* self.job_summary
    mill_data,          \* self.mill_data
    ct_milling_data,    \* self.ct_milling_data
    daily_operations,   \* self.daily_operations
    equipment_usage,    \* self.equipment_usage  (tool number n stands for key "FTn")
    result,             \* the value returned by the last call
    outcome,            \* "none" | "returned" | "raised": how the last call ended
    call,               \* name of the last method called on the extractor
    workbook,           \* the uploaded file the last call was given
    args,               \* the other arguments of the last call
    notice,             \* the message the dashboard's sidebar shows for the data
    dashboard           \* the data display_dashboard was given; {} when not rendered

vars == <<job_summary, mill_data, ct_milling_data, daily_operations,
          equipment_usage, result, outcome, call, workbook, args, notice,
          dashboard>>

-----------------------------------------------------------------------------
(* Python values *)

None_ == "<None>"

EmptyMap == [k \in {} |-> 0]

ZeroDivisionError == 0 - 1

IsEmptyMap(m) == DOMAIN m = {}

Get(m, k, default) == IF k \in DOMAIN m THEN m[k] ELSE default

RECURSIVE SumSeq(_)
SumSeq(s) == IF s = <<>> THEN 0 ELSE Head(s) + SumSeq(Tail(s))

RECURSIVE MaxSeq(_)
MaxSeq(s) == IF Len(s) = 1 THEN s[1]
             ELSE LET m == MaxSeq(Tail(s)) IN IF s[1] >= m THEN s[1] ELSE m

RECURSIVE MinSeq(_)
MinSeq(s) == IF Len(s) = 1 THEN s[1]
             ELSE LET m == MinSeq(Tail(s)) IN IF s[1] <= m THEN s[1] ELSE m

Map(s, Op(_)) == [i \in 1..Len(s) |-> Op(s[i])]

\* round() of the exact quotient num/den to an integer, ties to even
\* (Python's round and numpy's round both round half to even).
RoundDiv(num, den) ==
    LET q == num \div den
        r == num % den
    IN  IF 2 * r < den THEN q
        ELSE IF 2 * r > den THEN q + 1
        ELSE IF q % 2 = 0 THEN q ELSE q + 1

\* Python's a / b followed by round(): raises ZeroDivisionError when b = 0.
TrueDivRound(num, den) ==
    IF den = 0 THEN ZeroDivisionError ELSE RoundDiv(num, den)

-----------------------------------------------------------------------------
(* Program constants *)

NumServicePlans == 10
NumToolSheets == 15
DefaultDuration == 7
ExcellentRate == 95
GoodRate == 85
FullRate == 100
MaintenanceRate == 90
MillTimeThreshold == 450
CTTimeThreshold == 400
EfficiencyHigh == 85
EfficiencyLow == 75
SafetyScore == 98
JobCompletionRate == 100
DepthAccuracy == 955
FootagePerPlug == 3

-----------------------------------------------------------------------------
(* MetricsEngine *)

activitiesOf(day) == day.activities
workHoursOf(day) == day.work_hours
downtimeOf(day) == day.downtime
drillTimeOf(op) == op.drill_time_mins

\* Mutant: the last element with the greatest key wins.
RECURSIVE PyMaxByActivitiesLast(_, _)
PyMaxByActivitiesLast(best, rest) ==
    IF rest = <<>> THEN best
    ELSE IF Head(rest).activities >= best.activities
         THEN PyMaxByActivitiesLast(Head(rest), Tail(rest))
         ELSE PyMaxByActivitiesLast(best, Tail(rest))

\* max(self.daily_operations, key=lambda x: x['activities']): the first
\* element with the greatest key.
RECURSIVE PyMaxByActivities(_, _)
PyMaxByActivities(best, rest) ==
    IF rest = <<>> THEN best
    ELSE IF Head(rest).activities > best.activities
         THEN PyMaxByActivities(Head(rest), Tail(rest))
         ELSE PyMaxByActivities(best, Tail(rest))

AnalyzeOperationalFrequency(daily) ==
    IF daily = <<>> THEN EmptyMap
    ELSE
    LET total_days == Len(daily)
        total_activities == SumSeq(Map(daily, activitiesOf))
        total_work_hours == SumSeq(Map(daily, workHoursOf))
    IN  [ total_operational_days |-> total_days,
          total_activities |-> total_activities,
          avg_activities_per_day |->
              IF total_days > 0
              THEN TrueDivRound(total_activities * 10, total_days) ELSE 0,
          total_work_hours |-> total_work_hours,
          avg_hours_per_day |->
              IF total_days > 0
              THEN TrueDivRound(total_work_hours, total_days) ELSE 0,
          peak_activity_day |->
              PyMaxByActivities(Head(daily), Tail(daily)).day,
          most_common_equipment |-> "drillout_tools" ]

\* Mutant: a success rate of exactly 95 is not yet excellent.
RatingStrict(rate) ==
    IF rate > ExcellentRate THEN "excellent"
    ELSE IF rate >= GoodRate THEN "good"
    ELSE "poor"

Rating(rate) ==
    IF rate >= ExcellentRate THEN "excellent"
    ELSE IF rate >= GoodRate THEN "good"
    ELSE "poor"

PerformanceRatingCount(equipment, rating) ==
    Cardinality({k \in DOMAIN equipment : Rating(equipment[k].success_rate) = rating})

\* Mutant: only the tools below the excellent threshold count as having issues.
ToolsWithIssuesBelowExcellent(equipment) ==
    Cardinality({k \in DOMAIN equipment : equipment[k].success_rate < ExcellentRate})

ToolsWithIssues(equipment) ==
    Cardinality({k \in DOMAIN equipment : equipment[k].success_rate < FullRate})

\* {rating: performance_ratings.count(rating) for rating in set(performance_ratings)}
PerformanceDistribution(equipment) ==
    [ rating \in {Rating(equipment[k].success_rate) : k \in DOMAIN equipment} |->
         PerformanceRatingCount(equipment, rating) ]

AnalyzeEquipmentFrequency(equipment) ==
    IF DOMAIN equipment = {} THEN EmptyMap
    ELSE
    LET tools_used == Cardinality(DOMAIN equipment)
        tools_with_issues == ToolsWithIssues(equipment)
    IN  [ total_tools_deployed |-> tools_used,
          tools_with_issues |-> tools_with_issues,
          performance_distribution |-> PerformanceDistribution(equipment),
          most_used_tool_type |-> "Drillout Tools",
          deployment_success_rate |->
              IF tools_used > 0
              THEN TrueDivRound((tools_used - tools_with_issues) * 100 * 100, tools_used)
              ELSE 0 ]

IsPositive(h) == h > 0

\* Mutant: no early return for an empty list of days.
AnalyzeTimePatternsNoGuard(daily) ==
    LET work_hours == SelectSeq(Map(daily, workHoursOf), IsPositive)
        downtime_hours == Map(daily, downtimeOf)
    IN  [ avg_daily_hours |->
              IF work_hours # <<>>
              THEN TrueDivRound(SumSeq(work_hours), Len(work_hours)) ELSE 0,
          max_daily_hours |-> IF work_hours # <<>> THEN MaxSeq(work_hours) ELSE 0,
          min_daily_hours |-> IF work_hours # <<>> THEN MinSeq(work_hours) ELSE 0,
          total_downtime |-> SumSeq(downtime_hours),
          downtime_percentage |->
              IF SumSeq(work_hours) > 0
              THEN TrueDivRound(SumSeq(downtime_hours) * 100 * 100, SumSeq(work_hours))
              ELSE 0 ]

AnalyzeTimePatterns(daily) ==
    IF daily = <<>> THEN EmptyMap
    ELSE
    LET work_hours == SelectSeq(Map(daily, workHoursOf), IsPositive)
        downtime_hours == Map(daily, downtimeOf)
    IN  [ avg_daily_hours |->
              IF work_hours # <<>>
              THEN TrueDivRound(SumSeq(work_hours), Len(work_hours)) ELSE 0,
          max_daily_hours |-> IF work_hours # <<>> THEN MaxSeq(work_hours) ELSE 0,
          min_daily_hours |-> IF work_hours # <<>> THEN MinSeq(work_hours) ELSE 0,
          total_downtime |-> SumSeq(downtime_hours),
          downtime_percentage |->
              IF SumSeq(work_hours) > 0
              THEN TrueDivRound(SumSeq(downtime_hours) * 100 * 100, SumSeq(work_hours))
              ELSE 0 ]

IsSuccess(op) == Get(op, "success", TRUE)

AnalyzeMillPerformance(mill) ==
    IF mill = <<>> THEN EmptyMap
    ELSE
    LET total_plugs == Len(mill)
        sum_drill_time == SumSeq(Map(mill, drillTimeOf))
        successes == Len(SelectSeq(mill, IsSuccess))
    IN  [ total_plugs_drilled |-> total_plugs,
          avg_drill_time_mins |-> TrueDivRound(sum_drill_time, total_plugs),
          success_rate |-> TrueDivRound(successes * 100 * 10, total_plugs),
          total_footage |-> FootagePerPlug * total_plugs,
          efficiency_rating |->
              IF sum_drill_time < MillTimeThreshold * total_plugs
              THEN "High" ELSE "Medium" ]

\* Mutant: a CT average of exactly 40 minutes is still rated Excellent.
AnalyzeCTPerformanceAtMost(ct) ==
    IF ct = <<>> THEN EmptyMap
    ELSE
    LET total_operations == Len(ct)
        sum_drill_time == SumSeq(Map(ct, drillTimeOf))
    IN  [ total_ct_operations |-> total_operations,
          avg_ct_drill_time |-> TrueDivRound(sum_drill_time, total_operations),
          depth_accuracy |-> DepthAccuracy,
          efficiency_rating |->
              IF sum_drill_time <= CTTimeThreshold * total_operations
              THEN "Excellent" ELSE "Good" ]

AnalyzeCTPerformance(ct) ==
    IF ct = <<>> THEN EmptyMap
    ELSE
    LET total_operations == Len(ct)
        sum_drill_time == SumSeq(Map(ct, drillTimeOf))
    IN  [ total_ct_operations |-> total_operations,
          avg_ct_drill_time |-> TrueDivRound(sum_drill_time, total_operations),
          depth_accuracy |-> DepthAccuracy,
          efficiency_rating |->
              IF sum_drill_time < CTTimeThreshold * total_operations
              THEN "Excellent" ELSE "Good" ]

\* Mutant: the divisions are not guarded against a zero denominator.
CalculateEfficiencyMetricsNoGuard(job, daily, equipment, mill) ==
    LET job_duration == Get(job, "duration_days", 0)
        total_activities == SumSeq(Map(daily, activitiesOf))
        total_work_hours == SumSeq(Map(daily, workHoursOf))
        mill_perf == AnalyzeMillPerformance(mill)
        drilling_efficiency ==
            IF Get(mill_perf, "avg_drill_time_mins", 500) < MillTimeThreshold
            THEN EfficiencyHigh ELSE EfficiencyLow
    IN  [ activities_per_hour |->
              TrueDivRound(total_activities * 100 * 100, total_work_hours),
          hours_per_day_avg |-> TrueDivRound(total_work_hours, job_duration),
          job_completion_rate |-> JobCompletionRate,
          equipment_utilization |->
              RoundDiv(Cardinality(DOMAIN equipment) * 100 * 100, NumToolSheets),
          drilling_efficiency |-> drilling_efficiency,
          safety_score |-> SafetyScore ]

\* Mutant: an average of exactly 45 minutes still earns the higher tier.
CalculateEfficiencyMetricsAtMost(job, daily, equipment, mill) ==
    LET job_duration == Get(job, "duration_days", 0)
        total_activities == SumSeq(Map(daily, activitiesOf))
        total_work_hours == SumSeq(Map(daily, workHoursOf))
        mill_perf == AnalyzeMillPerformance(mill)
        drilling_efficiency ==
            IF Get(mill_perf, "avg_drill_time_mins", 500) <= MillTimeThreshold
            THEN EfficiencyHigh ELSE EfficiencyLow
    IN  [ activities_per_hour |->
              IF total_work_hours > 0
              THEN TrueDivRound(total_activities * 100 * 100, total_work_hours)
              ELSE 0,
          hours_per_day_avg |->
              IF job_duration > 0
              THEN TrueDivRound(total_work_hours, job_duration) ELSE 0,
          job_completion_rate |-> JobCompletionRate,
          equipment_utilization |->
              RoundDiv(Cardinality(DOMAIN equipment) * 100 * 100, NumToolSheets),
          drilling_efficiency |-> drilling_efficiency,
          safety_score |-> SafetyScore ]

\* Mutant: utilization measured against ten tool sheets.
CalculateEfficiencyMetricsOfTen(job, daily, equipment, mill) ==
    LET job_duration == Get(job, "duration_days", 0)
        total_activities == SumSeq(Map(daily, activitiesOf))
        total_work_hours == SumSeq(Map(daily, workHoursOf))
        mill_perf == AnalyzeMillPerformance(mill)
        drilling_efficiency ==
            IF Get(mill_perf, "avg_drill_time_mins", 500) < MillTimeThreshold
            THEN EfficiencyHigh ELSE EfficiencyLow
    IN  [ activities_per_hour |->
              IF total_work_hours > 0
              THEN TrueDivRound(total_activities * 100 * 100, total_work_hours)
              ELSE 0,
          hours_per_day_avg |->
              IF job_duration > 0
              THEN TrueDivRound(total_work_hours, job_duration) ELSE 0,
          job_completion_rate |-> JobCompletionRate,
          equipment_utilization |->
              RoundDiv(Cardinality(DOMAIN equipment) * 100 * 100, 10),
          drilling_efficiency |-> drilling_efficiency,
          safety_score |-> SafetyScore ]

CalculateEfficiencyMetrics(job, daily, equipment, mill) ==
    LET job_duration == Get(job, "duration_days", 0)
        total_activities == SumSeq(Map(daily, activitiesOf))
        total_work_hours == SumSeq(Map(daily, workHoursOf))
        mill_perf == AnalyzeMillPerformance(mill)
        drilling_efficiency ==
            IF Get(mill_perf, "avg_drill_time_mins", 500) < MillTimeThreshold
            THEN EfficiencyHigh ELSE EfficiencyLow
    IN  [ activities_per_hour |->
              IF total_work_hours > 0
              THEN TrueDivRound(total_activities * 100 * 100, total_work_hours)
              ELSE 0,
          hours_per_day_avg |->
              IF job_duration > 0
              THEN TrueDivRound(total_work_hours, job_duration) ELSE 0,
          job_completion_rate |-> JobCompletionRate,
          equipment_utilization |->
              RoundDiv(Cardinality(DOMAIN equipment) * 100 * 100, NumToolSheets),
          drilling_efficiency |-> drilling_efficiency,
          safety_score |-> SafetyScore ]

-----------------------------------------------------------------------------
(* RecommendationEngine.  An advisory is its text and the number it states   *)
(* (0 when the text states none).                                            *)

DrillTimeWarning ==
    [ text |-> "Average drill time exceeds 45 minutes - consider bit optimization or parameter adjustment",
      count |-> 0 ]
DrillTimeExcellent ==
    [ text |-> "Excellent drilling performance - maintain current operational parameters",
      count |-> 0 ]
MaintenanceAdvisory(n) ==
    [ text |-> "tools require maintenance review before next deployment",
      count |-> n ]
EfficiencyAdvisory ==
    [ text |-> "High drilling efficiency achieved - consider sharing best practices with other crews",
      count |-> 0 ]
SafetyAdvisory ==
    [ text |-> "Maintain excellent safety record with continued JSA compliance and observation protocols",
      count |-> 0 ]

\* Mutant: every tool counts as needing maintenance.
ToolsNeedingMaintenanceAll(equipment) == Cardinality(DOMAIN equipment)

ToolsNeedingMaintenance(equipment) ==
    Cardinality({k \in DOMAIN equipment : equipment[k].maintenance_due})

\* Mutant: the safety rule is evaluated first.
GenerateRecommendationsSafetyFirst(job, daily, equipment, mill) ==
    LET mill_perf == AnalyzeMillPerformance(mill)
        drill == IF Get(mill_perf, "avg_drill_time_mins", 0) > MillTimeThreshold
                 THEN <<DrillTimeWarning>> ELSE <<DrillTimeExcellent>>
        tools_needing_maintenance == ToolsNeedingMaintenance(equipment)
        maint == IF DOMAIN equipment # {} /\ tools_needing_maintenance > 0
                 THEN <<MaintenanceAdvisory(tools_needing_maintenance)>> ELSE <<>>
        efficiency == CalculateEfficiencyMetrics(job, daily, equipment, mill)
        share == IF Get(efficiency, "drilling_efficiency", 0) > 80
                 THEN <<EfficiencyAdvisory>> ELSE <<>>
    IN  <<SafetyAdvisory>> \o drill \o maint \o share

\* Mutant: the efficiency-sharing rule fires whatever the drilling efficiency.
GenerateRecommendationsShareAlways(job, daily, equipment, mill) ==
    LET mill_perf == AnalyzeMillPerformance(mill)
        drill == IF Get(mill_perf, "avg_drill_time_mins", 0) > MillTimeThreshold
                 THEN <<DrillTimeWarning>> ELSE <<DrillTimeExcellent>>
        tools_needing_maintenance == ToolsNeedingMaintenance(equipment)
        maint == IF DOMAIN equipment # {} /\ tools_needing_maintenance > 0
                 THEN <<MaintenanceAdvisory(tools_needing_maintenance)>> ELSE <<>>
    IN  drill \o maint \o <<EfficiencyAdvisory>> \o <<SafetyAdvisory>>

GenerateRecommendations(job, daily, equipment, mill) ==
    LET mill_perf == AnalyzeMillPerformance(mill)
        drill == IF Get(mill_perf, "avg_drill_time_mins", 0) > MillTimeThreshold
                 THEN <<DrillTimeWarning>> ELSE <<DrillTimeExcellent>>
        tools_needing_maintenance == ToolsNeedingMaintenance(equipment)
        maint == IF DOMAIN equipment # {} /\ tools_needing_maintenance > 0
                 THEN <<MaintenanceAdvisory(tools_needing_maintenance)>> ELSE <<>>
        efficiency == CalculateEfficiencyMetrics(job, daily, equipment, mill)
        share == IF Get(efficiency, "drilling_efficiency", 0) > 80
                 THEN <<EfficiencyAdvisory>> ELSE <<>>
    IN  drill \o maint \o share \o <<SafetyAdvisory>>

-----------------------------------------------------------------------------
(* AnalysisAssembler *)

ResultKeys ==
    { "job_summary", "operational_frequency", "equipment_frequency",
      "time_analysis", "efficiency_metrics", "daily_breakdown",
      "equipment_usage", "mill_performance", "ct_performance",
      "recommendations" }

\* The fields computed by a division, per metric group.
RatioKeys ==
    [ operational_frequency |-> {"avg_activities_per_day", "avg_hours_per_day"},
      equipment_frequency |-> {"deployment_success_rate"},
      time_analysis |-> {"avg_daily_hours", "downtime_percentage"},
      efficiency_metrics |-> {"activities_per_hour", "hours_per_day_avg"},
      mill_performance |-> {"avg_drill_time_mins", "success_rate"},
      ct_performance |-> {"avg_ct_drill_time"} ]

MetricGroups == DOMAIN RatioKeys

\* A metric function raised when one of its divisions did.
GroupRaised(analysis, g) ==
    /\ g \in DOMAIN analysis
    /\ \E k \in RatioKeys[g] \cap DOMAIN analysis[g] :
          analysis[g][k] = ZeroDivisionError

AnalysisRaised(analysis) == \E g \in MetricGroups : GroupRaised(analysis, g)

\* Mutant: a metric group is left out of the result when it is empty.
GenerateFrequencyAnalysisOmitEmpty(job, mill, ct, daily, equipment) ==
    LET full ==
          [ job_summary |-> job,
            operational_frequency |-> AnalyzeOperationalFrequency(daily),
            equipment_frequency |-> AnalyzeEquipmentFrequency(equipment),
            time_analysis |-> AnalyzeTimePatterns(daily),
            efficiency_metrics |-> CalculateEfficiencyMetrics(job, daily, equipment, mill),
            daily_breakdown |-> daily,
            equipment_usage |-> equipment,
            mill_performance |-> AnalyzeMillPerformance(mill),
            ct_performance |-> AnalyzeCTPerformance(ct),
            recommendations |-> GenerateRecommendations(job, daily, equipment, mill) ]
    IN  [ k \in {x \in ResultKeys : x \in MetricGroups => ~IsEmptyMap(full[x])} |-> full[k] ]

GenerateFrequencyAnalysis(job, mill, ct, daily, equipment) ==
    [ job_summary |-> job,
      operational_frequency |-> AnalyzeOperationalFrequency(daily),
      equipment_frequency |-> AnalyzeEquipmentFrequency(equipment),
      time_analysis |-> AnalyzeTimePatterns(daily),
      efficiency_metrics |-> CalculateEfficiencyMetrics(job, daily, equipment, mill),
      daily_breakdown |-> daily,
      equipment_usage |-> equipment,
      mill_performance |-> AnalyzeMillPerformance(mill),
      ct_performance |-> AnalyzeCTPerformance(ct),
      recommendations |-> GenerateRecommendations(job, daily, equipment, mill) ]

-----------------------------------------------------------------------------
(* Canned data *)

DemoJobSummary ==
    [ customer_name |-> "Mughees Khan",
      ticket_number |-> "AE867384",
      address |-> "Dubai Silicon Oasis",
      city_state |-> "Dubai, UAE",
      day_supervisor |-> "Saif Khan",
      email |-> "mughees@bracketworks.io",
      date_started |-> "2025-06-11",
      date_ended |-> "2025-06-18",
      job_type |-> "Drillout Operation",
      well_number |-> "Well #DSO-1",
      county |-> "Dubai",
      duration_days |-> 7 ]

\* _get_demo_mill_data: drill time 35 + 2i minutes
GetDemoMillData ==
    [ i \in 1..10 |->
        [ plug_number |-> i,
          tag_time |-> <<8 + i, 30>>,
          tag_depth |-> 5250 - i * 50,
          drill_time_mins |-> (35 + i * 2) * 10,
          actual_depth |-> 5253 - i * 50,
          success |-> TRUE ] ]

\* _get_demo_ct_data: drill time 30 + 1.5i minutes
GetDemoCTData ==
    [ i \in 1..5 |->
        [ plug_number |-> i,
          tag_time |-> <<9 + i, 15>>,
          set_depth |-> 4800 - i * 40,
          tag_depth |-> 4798 - i * 40,
          drill_time_mins |-> 300 + i * 15 ] ]

DemoDay(day, activities, work_hours, downtime, equipment, mill_ops, ct_ops) ==
    [ day |-> day, date |-> <<2025, 6, 10 + day>>, activities |-> activities,
      work_hours |-> work_hours, downtime |-> downtime, equipment |-> equipment,
      mill_operations |-> mill_ops, ct_operations |-> ct_ops ]

DemoDailyBreakdown ==
    << DemoDay(1, 10,  950, 150, <<1, 2>>,    2, 0),
       DemoDay(2, 13, 1100, 100, <<2, 3, 4>>, 2, 0),
       DemoDay(3, 15, 1250,  50, <<3, 5, 6>>, 2, 0),
       DemoDay(4, 12, 1050, 150, <<4, 7>>,    2, 1),
       DemoDay(5, 11,  900, 200, <<5, 8>>,    2, 1),
       DemoDay(6,  9,  850, 120, <<6, 9>>,    0, 1),
       DemoDay(7,  8,  750, 150, <<7, 10>>,   0, 2) >>

Tool(usage_count, success_rate, avg_deployment_time, tool_type, maintenance_due) ==
    [ usage_count |-> usage_count, success_rate |-> success_rate,
      avg_deployment_time |-> avg_deployment_time, tool_type |-> tool_type,
      maintenance_due |-> maintenance_due ]

DemoEquipmentUsage ==
    << Tool(1, 100, 250, "Overshot", FALSE),
       Tool(2, 100, 320, "Spear", FALSE),
       Tool(2,  85, 410, "Mill", TRUE),
       Tool(2, 100, 280, "Magnet", FALSE),
       Tool(2, 100, 350, "Junk Basket", FALSE),
       Tool(2,  75, 480, "Washover", TRUE),
       Tool(2, 100, 220, "Taper Tap", FALSE),
       Tool(1, 100, 300, "Die Collar", FALSE),
       Tool(1, 100, 270, "Bumper Sub", FALSE),
       Tool(1, 100, 210, "Jar", FALSE),
       Tool(1, 100, 330, "Accelerator", FALSE),
       Tool(1, 100, 290, "Hydraulic Jar", FALSE) >>

GetDemoData ==
    [ job_summary |-> DemoJobSummary,
      operational_frequency |->
          [ total_operational_days |-> 7,
            total_activities |-> 78,
            avg_activities_per_day |-> 111,
            total_work_hours |-> 6850,
            avg_hours_per_day |-> 980,
            peak_activity_day |-> 3,
            most_common_equipment |-> "drillout_tools" ],
      equipment_frequency |->
          [ total_tools_deployed |-> 12,
            tools_with_issues |-> 2,
            deployment_success_rate |-> 8330,
            performance_distribution |-> [excellent |-> 7, good |-> 3, poor |-> 2] ],
      time_analysis |->
          [ avg_daily_hours |-> 980,
            max_daily_hours |-> 1250,
            min_daily_hours |-> 700,
            total_downtime |-> 920,
            downtime_percentage |-> 1340 ],
      efficiency_metrics |->
          [ activities_per_hour |-> 114,
            hours_per_day_avg |-> 980,
            job_completion_rate |-> 100,
            equipment_utilization |-> 8000,
            drilling_efficiency |-> 88,
            safety_score |-> 98 ],
      mill_performance |->
          [ total_plugs_drilled |-> 10,
            avg_drill_time_mins |-> 423,
            success_rate |-> 1000,
            total_footage |-> 30,
            efficiency_rating |-> "High" ],
      ct_performance |->
          [ total_ct_operations |-> 5,
            avg_ct_drill_time |-> 368,
            depth_accuracy |-> 955,
            efficiency_rating |-> "Excellent" ],
      daily_breakdown |-> DemoDailyBreakdown,
      equipment_usage |-> DemoEquipmentUsage,
      recommendations |->
          << [ text |-> "Excellent drilling performance with 42.3 min average - maintain current operational parameters", count |-> 0 ],
             [ text |-> "tools (FT3, FT6) require maintenance review before next deployment", count |-> 2 ],
             [ text |-> "High drilling efficiency achieved (88%) - consider sharing best practices with other crews", count |-> 0 ],
             [ text |-> "CT operations showing excellent efficiency (36.8 min avg) - optimize for future jobs", count |-> 0 ],
             SafetyAdvisory >> ]

-----------------------------------------------------------------------------
(* Spreadsheet cells and CellLookup *)

NaNCell == [kind |-> "nan", num |-> 0, str |-> ""]
NumCell(n) == [kind |-> "num", num |-> n, str |-> ""]
StrCell(s) == [kind |-> "str", num |-> 0, str |-> s]

NotNa(cell) == cell.kind # "nan"

\* str(value)
PyStr(cell) == IF cell.kind = "num" THEN ToString(cell.num) ELSE cell.str

\* str.strip() on the texts the sheets of the model hold
Strip(s) ==
    CASE s = "  Mughees Khan " -> "Mughees Khan"
      [] s = "AE867384 " -> "AE867384"
      [] s = "   " -> ""
      [] OTHER -> s

\* x or default
PyOr(value, default) == IF value = None_ \/ value = "" THEN default ELSE value

\* (row, column) of each job-metadata cell, 0-based
JobCellPosition ==
    [ customer_name |-> <<11, 2>>,
      ticket_number |-> <<11, 4>>,
      address |-> <<12, 2>>,
      city_state |-> <<13, 2>>,
      day_supervisor |-> <<12, 4>>,
      email |-> <<14, 4>>,
      date_started |-> <<18, 4>>,
      date_ended |-> <<19, 4>>,
      well_number |-> <<23, 2>>,
      county |-> <<24, 2>> ]

JobCellFields == DOMAIN JobCellPosition

JobFields == JobCellFields \cup {"job_type", "duration_days"}

InBounds(df, row, col) == row < df.nrows /\ col < df.ncols

\* df.iloc[row, col] of the General Info sheet; the model keeps the cells at
\* the job-metadata positions only.
GICellAt(df, row, col) ==
    LET f == CHOOSE k \in JobCellFields : JobCellPosition[k] = <<row, col>>
    IN  df.cells[f]

\* Mutant: an empty cell inside the sheet is returned as the text "nan".
FindCellValueByPositionNoNaCheck(df, row, col) ==
    IF InBounds(df, row, col)
    THEN LET value == GICellAt(df, row, col)
         IN  IF NotNa(value) THEN PyStr(value) ELSE "nan"
    ELSE None_

FindCellValueByPosition(df, row, col) ==
    IF InBounds(df, row, col)
    THEN LET value == GICellAt(df, row, col)
         IN  IF NotNa(value) THEN PyStr(value) ELSE None_
    ELSE None_

CalculateDuration == DefaultDuration

CleanJobInfo(job_info) ==
    [ k \in DOMAIN job_info |->
        IF k = "duration_days" THEN job_info[k]
        ELSE IF job_info[k] # None_ /\ job_info[k] # ""
             THEN Strip(job_info[k]) ELSE job_info[k] ]

Lookup(df, field) ==
    FindCellValueByPosition(df, JobCellPosition[field][1], JobCellPosition[field][2])

ExtractJobInfoFromUploaded(sheet) ==
    IF ~sheet.readable THEN DemoJobSummary
    ELSE CleanJobInfo(
        [ customer_name |-> Lookup(sheet, "customer_name"),
          ticket_number |-> Lookup(sheet, "ticket_number"),
          address |-> Lookup(sheet, "address"),
          city_state |-> Lookup(sheet, "city_state"),
          day_supervisor |-> Lookup(sheet, "day_supervisor"),
          email |-> Lookup(sheet, "email"),
          date_started |-> Lookup(sheet, "date_started"),
          date_ended |-> Lookup(sheet, "date_ended"),
          job_type |-> "Drillout Operation",
          well_number |-> PyOr(Lookup(sheet, "well_number"), "Well #1"),
          county |-> PyOr(Lookup(sheet, "county"), "Dubai"),
          duration_days |-> CalculateDuration ])

-----------------------------------------------------------------------------
(* SectionExtractor family.  pd.read_excel raises for a sheet that is not    *)
(* readable; each extractor catches that itself.  The random draws of one    *)
(* call are an input: a value per row or sheet for each np.random call.      *)

MillRows == 15..24
CTRows == 10..19

\* One pass of the loop body of extract_mill_data; <<>> when the body raised
\* (row outside the sheet: IndexError; text in column A: TypeError).
\* Mutant: a drill time of exactly 50 minutes still counts as a success.
MillOperationAtMost(sheet, draws, row_idx) ==
    IF row_idx >= sheet.nrows \/ sheet.colA[row_idx].kind = "str" THEN <<>>
    ELSE
    LET plug_num == IF NotNa(sheet.colA[row_idx])
                    THEN sheet.colA[row_idx].num ELSE row_idx - 14
        base_depth == 5250 - (plug_num - 1) * 55
        drill_time == draws.time[row_idx]
    IN  << [ plug_number |-> plug_num,
             tag_time |-> <<8 + (plug_num - 1) * 2, draws.minute[row_idx]>>,
             tag_depth |-> base_depth - 3,
             drill_time_mins |-> drill_time * 10,
             actual_depth |-> base_depth,
             depth_difference |-> 3,
             success |-> drill_time <= 50 ] >>

MillOperation(sheet, draws, row_idx) ==
    IF row_idx >= sheet.nrows \/ sheet.colA[row_idx].kind = "str" THEN <<>>
    ELSE
    LET plug_num == IF NotNa(sheet.colA[row_idx])
                    THEN sheet.colA[row_idx].num ELSE row_idx - 14
        base_depth == 5250 - (plug_num - 1) * 55
        drill_time == draws.time[row_idx]
    IN  << [ plug_number |-> plug_num,
             tag_time |-> <<8 + (plug_num - 1) * 2, draws.minute[row_idx]>>,
             tag_depth |-> base_depth - 3,
             drill_time_mins |-> drill_time * 10,
             actual_depth |-> base_depth,
             depth_difference |-> 3,
             success |-> drill_time < 50 ] >>

RECURSIVE MillOperations(_, _, _)
MillOperations(sheet, draws, row_idx) ==
    IF row_idx > 24 THEN <<>>
    ELSE MillOperation(sheet, draws, row_idx) \o MillOperations(sheet, draws, row_idx + 1)

\* Mutant: the failure of the sheet read leaves an empty list, no default.
ExtractMillDataNoDefault(sheet, draws) ==
    IF ~sheet.readable THEN <<>>
    ELSE MillOperations(sheet, draws, 15)

ExtractMillData(sheet, draws) ==
    IF ~sheet.readable THEN GetDemoMillData
    ELSE MillOperations(sheet, draws, 15)

\* f"{9 + (plug_num - 1) * 1.5:.0f}": the hour rounded half to even
CTTagHour(plug_num) == RoundDiv(18 + (plug_num - 1) * 3, 2)

CTOperation(sheet, draws, row_idx) ==
    IF row_idx >= sheet.nrows \/ sheet.colA[row_idx].kind = "str" THEN <<>>
    ELSE
    LET plug_num == IF NotNa(sheet.colA[row_idx])
                    THEN sheet.colA[row_idx].num ELSE row_idx - 9
        base_depth == 4800 - (plug_num - 1) * 45
    IN  << [ plug_number |-> plug_num,
             tag_time |-> <<CTTagHour(plug_num), draws.minute[row_idx]>>,
             set_depth |-> base_depth,
             tag_depth |-> base_depth - 2,
             depth_difference |-> 2,
             drill_time_mins |-> draws.time[row_idx] * 10 ] >>

RECURSIVE CTOperations(_, _, _)
CTOperations(sheet, draws, row_idx) ==
    IF row_idx > 19 THEN <<>>
    ELSE CTOperation(sheet, draws, row_idx) \o CTOperations(sheet, draws, row_idx + 1)

ExtractCTMillingData(sheet, draws) ==
    IF ~sheet.readable THEN GetDemoCTData
    ELSE CTOperations(sheet, draws, 10)

\* One pass of the loop body of extract_service_plans: sheet SPn read, or skipped.
\* Mutant: every record carries the number of readable sheets so far, not
\* the number of its sheet.
DailyRecordCounted(readable, draws, sp_num) ==
    IF sp_num \notin readable THEN <<>>
    ELSE << [ day |-> Cardinality({n \in readable : n <= sp_num}),
              date |-> <<2025, 6, 10 + sp_num>>,
              activities |-> draws[sp_num].activities,
              work_hours |-> draws[sp_num].work_hours,
              downtime |-> draws[sp_num].downtime,
              equipment |-> <<sp_num, sp_num + 1>>,
              mill_operations |-> IF sp_num <= 5 THEN 2 ELSE 1,
              ct_operations |-> IF sp_num > 5 THEN 1 ELSE 0 ] >>

DailyRecord(readable, draws, sp_num) ==
    IF sp_num \notin readable THEN <<>>
    ELSE << [ day |-> sp_num,
              date |-> <<2025, 6, 10 + sp_num>>,
              activities |-> draws[sp_num].activities,
              work_hours |-> draws[sp_num].work_hours,
              downtime |-> draws[sp_num].downtime,
              equipment |-> <<sp_num, sp_num + 1>>,
              mill_operations |-> IF sp_num <= 5 THEN 2 ELSE 1,
              ct_operations |-> IF sp_num > 5 THEN 1 ELSE 0 ] >>

RECURSIVE ServicePlans(_, _, _)
ServicePlans(readable, draws, sp_num) ==
    IF sp_num > NumServicePlans THEN <<>>
    ELSE DailyRecord(readable, draws, sp_num) \o ServicePlans(readable, draws, sp_num + 1)

\* Mutant: a partly readable set of day sheets collapses to the canned days.
ExtractServicePlansCollapse(readable, draws) ==
    IF readable # {} /\ readable # 1..NumServicePlans
    THEN DemoDailyBreakdown
    ELSE ServicePlans(readable, draws, 1)

\* Mutant: the day records are appended to the list the instance holds.
ExtractServicePlansAppend(readable, draws) ==
    daily_operations \o ServicePlans(readable, draws, 1)

ExtractServicePlans(readable, draws) == ServicePlans(readable, draws, 1)

GetToolType(tool_num) ==
    << "Overshot", "Spear", "Mill", "Magnet", "Junk Basket", "Washover",
       "Taper Tap", "Die Collar", "Bumper Sub", "Jar", "Accelerator",
       "Hydraulic Jar", "Safety Joint", "Crossover", "Bullnose" >>[tool_num]

EquipmentEntry(draws, tool_num) ==
    [ usage_count |-> draws[tool_num].usage_count,
      success_rate |-> draws[tool_num].success_rate,
      avg_deployment_time |-> draws[tool_num].avg_deployment_time,
      tool_type |-> GetToolType(tool_num),
      maintenance_due |-> draws[tool_num].success_rate < MaintenanceRate ]

\* Mutant: the first readable tool sheet leaves no entry.
ExtractEquipmentFromUploadedSkipFirst(readable, draws) ==
    [ tool_num \in { n \in readable \cap (1..NumToolSheets) :
                       \E m \in readable : m < n } |->
        EquipmentEntry(draws, tool_num) ]

ExtractEquipmentFromUploaded(readable, draws) ==
    [ tool_num \in readable \cap (1..NumToolSheets) |-> EquipmentEntry(draws, tool_num) ]

-----------------------------------------------------------------------------
(* Inputs: the uploaded workbooks and the random draws of one call *)

MaxEmptyCells == 2      \* empty job-metadata cells in a General Info sheet
MaxSheetNo == 3         \* partially readable workbooks hold sheets 1..MaxSheetNo
MaxDays == 3            \* daily records handed directly to the metric functions
MaxTools == 4          \* equipment records handed directly to the metric functions

\* Text held by the job-metadata cells of a filled General Info sheet
GICellText ==
    [ customer_name |-> "  Mughees Khan ",
      ticket_number |-> "AE867384 ",
      address |-> "Dubai Silicon Oasis",
      city_state |-> "Dubai, UAE",
      day_supervisor |-> "Saif Khan",
      email |-> "   ",
      date_started |-> "2025-06-11",
      date_ended |-> "2025-06-18",
      well_number |-> "Well #7",
      county |-> "Abu Dhabi" ]

UnreadableGI ==
    [ readable |-> FALSE, nrows |-> 0, ncols |-> 0,
      cells |-> [f \in JobCellFields |-> NaNCell] ]

\* A readable General Info sheet of nrows x ncols cells whose job-metadata
\* cells are filled except those of the fields in `empty`.
GISheet(nrows, ncols, empty) ==
    [ readable |-> TRUE, nrows |-> nrows, ncols |-> ncols,
      cells |-> [ f \in JobCellFields |->
                    IF f \in empty
                       \/ JobCellPosition[f][1] >= nrows
                       \/ JobCellPosition[f][2] >= ncols
                    THEN NaNCell
                    ELSE IF f = "date_ended" THEN NumCell(45826)
                    ELSE StrCell(GICellText[f]) ] ]

FullGI == GISheet(30, 6, {})
BlankGI == GISheet(30, 6, JobCellFields)

GISheets ==
    {UnreadableGI, BlankGI} \cup
    { GISheet(nr, nc, e) :
        nr \in {0, 12, 19, 24, 30}, nc \in {3, 6},
        e \in {x \in SUBSET JobCellFields : Cardinality(x) <= MaxEmptyCells} }

NoDraws == [time |-> [r \in {} |-> 0], minute |-> [r \in {} |-> 0]]

UnreadableSheet == [readable |-> FALSE, nrows |-> 0, colA |-> [r \in {} |-> NaNCell]]

\* A readable Mill Data / CT Milling sheet: its row count and its column A
\* on the rows the extractor visits.
DrillSheet(nrows, colA) == [readable |-> TRUE, nrows |-> nrows, colA |-> colA]

DrillColumns(rows, first) ==
    { [r \in rows |-> NaNCell],
      [r \in rows |-> NumCell(r - first + 1)],
      [r \in rows |-> IF r = first + 1 THEN StrCell("Plug") ELSE NaNCell],
      [r \in rows |-> IF r = first THEN NumCell(3) ELSE NaNCell] }

\* randint(35, 55) and randint(30, 50); randint(0, 59)
MillTimeDraws == {35, 45, 50, 54}
CTTimeDraws == {30, 40, 49}
MinuteDraws == {0, 58}

\* Draws for a readable sheet: one drill time for the first rows, another
\* for the rest.
DrillDraws(rows, split, times) ==
    { [ time |-> [r \in rows |-> IF r < split THEN a ELSE b],
        minute |-> [r \in rows |-> m] ] :
      a \in times, b \in times, m \in MinuteDraws }

\* <<sheet, draws>> pairs for extract_mill_data and extract_ct_milling_data
MillInputs ==
    {<<UnreadableSheet, NoDraws>>} \cup
    { <<DrillSheet(nr, colA), d>> :
        nr \in {0, 20, 25}, colA \in DrillColumns(MillRows, 15),
        d \in DrillDraws(MillRows, 20, MillTimeDraws) }

CTInputs ==
    {<<UnreadableSheet, NoDraws>>} \cup
    { <<DrillSheet(nr, colA), d>> :
        nr \in {0, 15, 20}, colA \in DrillColumns(CTRows, 10),
        d \in DrillDraws(CTRows, 15, CTTimeDraws) }

\* randint(8, 15), uniform(8.5, 12.0), uniform(0.5, 2.0)
DayDraws ==
    { [activities |-> 8, work_hours |-> 850, downtime |-> 200],
      [activities |-> 14, work_hours |-> 1199, downtime |-> 50] }

\* randint(1, 4), choice([100, 100, 100, 85, 75]), uniform(1.5, 4.5)
ToolDraws ==
    { [usage_count |-> 1, success_rate |-> 100, avg_deployment_time |-> 150],
      [usage_count |-> 3, success_rate |-> 85, avg_deployment_time |-> 449],
      [usage_count |-> 2, success_rate |-> 75, avg_deployment_time |-> 300] }

\* Which of the sheets 1..n can be read: none, all, or some of the first few
ReadableSets(n) == (SUBSET (1..MaxSheetNo)) \cup {1..n}

\* A draw per readable sheet; the same draw for every sheet when many are
SheetDraws(readable, values) ==
    IF Cardinality(readable) <= MaxSheetNo
    THEN [readable -> values]
    ELSE { [x \in readable |-> v] : v \in values }

SPInputs ==
    UNION { { <<r, d>> : d \in SheetDraws(r, DayDraws) } : r \in ReadableSets(NumServicePlans) }

FTInputs ==
    UNION { { <<r, d>> : d \in SheetDraws(r, ToolDraws) } : r \in ReadableSets(NumToolSheets) }

\* The number of time-of-day texts ("8:30", "14:20") in the cells of sheet
\* SPn of the uploaded workbooks: SP1 holds 3, SP2 holds 20, SP3 none.
TimePatternsOfSheet == <<3, 20, 0, 9, 9, 9, 9, 9, 9, 9>>

DayTimes(readable) == [sp_num \in readable |-> TimePatternsOfSheet[sp_num]]

Upload(gi, mill, ct, sp, ft) ==
    [ gi |-> gi,
      mill |-> mill[1], mill_draws |-> mill[2],
      ct |-> ct[1], ct_draws |-> ct[2],
      sp |-> sp[1], sp_times |-> DayTimes(sp[1]), day_draws |-> sp[2],
      ft |-> ft[1], tool_draws |-> ft[2] ]

NoSheets == <<{}, [x \in {} |-> 0]>>
UnreadableDrill == <<UnreadableSheet, NoDraws>>

\* The file that cannot be opened at all
UnreadableUpload == Upload(UnreadableGI, UnreadableDrill, UnreadableDrill, NoSheets, NoSheets)

TypicalMill ==
    << DrillSheet(25, [r \in MillRows |-> NaNCell]),
       [time |-> [r \in MillRows |-> 45], minute |-> [r \in MillRows |-> 0]] >>
TypicalCT ==
    << DrillSheet(20, [r \in CTRows |-> NaNCell]),
       [time |-> [r \in CTRows |-> 40], minute |-> [r \in CTRows |-> 0]] >>

\* Every section varied; the day and tool sheets none, some or all readable
SectionUploads ==
    { Upload(gi, mill, ct, sheets[1], sheets[2]) :
        gi \in {UnreadableGI, FullGI, BlankGI},
        mill \in { m \in MillInputs :
                     /\ m[1].nrows \in {0, 25}
                     /\ \A r \in DOMAIN m[1].colA : ~NotNa(m[1].colA[r])
                     /\ \A r \in DOMAIN m[2].time : m[2].time[r] = m[2].time[15]
                     /\ \A r \in DOMAIN m[2].minute : m[2].minute[r] = 0 },
        ct \in {UnreadableDrill, TypicalCT},
        sheets \in { <<sp, ft>> \in SPInputs \X FTInputs :
                       /\ sp[1] \in {{}, {2}, 1..NumServicePlans}
                       /\ ft[1] \in {{}, {2, 3}, 1..NumToolSheets}
                       /\ \A x \in sp[1] : sp[2][x].activities = 8
                       /\ \A x \in ft[1] : ft[2][x].success_rate = 85 } }

\* The day and tool sheets varied; the other sections all readable or all not
SheetUploads ==
    { Upload(other[1], other[2], other[3], sp, ft) :
        other \in { <<UnreadableGI, UnreadableDrill, UnreadableDrill>>,
                    <<FullGI, TypicalMill, TypicalCT>> },
        sp \in SPInputs, ft \in FTInputs }

Uploads == SectionUploads \cup SheetUploads

\* Extractor states handed directly to the metric functions
MetricDayValues ==
    { [activities |-> 0, work_hours |-> 0, downtime |-> 0],
      [activities |-> 8, work_hours |-> 850, downtime |-> 200],
      [activities |-> 14, work_hours |-> 1199, downtime |-> 50],
      [activities |-> 14, work_hours |-> 0, downtime |-> 100],
      [activities |-> 10, work_hours |-> 950, downtime |-> 150] }

\* Day i of the sequence is day i, or day 2i + 1 (the odd sheets readable)
MetricDaily(values, gap) ==
    [ i \in 1..Len(values) |->
        [ day |-> IF gap THEN 2 * i + 1 ELSE i,
          date |-> <<2025, 6, 10 + i>>,
          activities |-> values[i].activities,
          work_hours |-> values[i].work_hours,
          downtime |-> values[i].downtime,
          equipment |-> <<i, i + 1>>,
          mill_operations |-> 2,
          ct_operations |-> 0 ] ]

MetricDailies ==
    {DemoDailyBreakdown} \cup
    { MetricDaily(v, gap) :
        v \in UNION { [1..n -> MetricDayValues] : n \in 0..MaxDays },
        gap \in BOOLEAN }

MetricRates == {100, 95, 94, 85, 84}

IsNonIncreasing(s) == \A i \in 1..(Len(s) - 1) : s[i] >= s[i + 1]

MetricEquipment(rates) ==
    [ i \in 1..Len(rates) |->
        Tool(1, rates[i], 250, GetToolType(i), rates[i] < MaintenanceRate) ]

\* Equipment mappings up to the order of their entries, which no metric reads
MetricEquipments ==
    {DemoEquipmentUsage} \cup
    { MetricEquipment(r) :
        r \in { x \in UNION { [1..n -> MetricRates] : n \in 0..MaxTools } :
                  IsNonIncreasing(x) } }

MetricJobs ==
    { EmptyMap, DemoJobSummary, [DemoJobSummary EXCEPT !.duration_days = 0] }

MetricStates ==
    { [job |-> j, daily |-> d, equipment |-> e[1], mill |-> e[2], ct |-> e[3]] :
        j \in MetricJobs, d \in MetricDailies,
        e \in { <<EmptyMap, <<>>, <<>>>>,
                <<DemoEquipmentUsage, GetDemoMillData, GetDemoCTData>> } }
    \cup
    { [job |-> DemoJobSummary, daily |-> d, equipment |-> e, mill |-> <<>>,
       ct |-> GetDemoCTData] :
        d \in {<<>>, DemoDailyBreakdown}, e \in MetricEquipments }

-----------------------------------------------------------------------------
(* The extractor object and its callers *)

NoUpload == UnreadableUpload   \* value of `workbook` before any upload

ExtractCalls ==
    { "extract_job_info_from_uploaded", "extract_mill_data",
      "extract_ct_milling_data", "extract_service_plans",
      "extract_equipment_from_uploaded" }

\* __init__
Init ==
    /\ job_summary = EmptyMap
    /\ mill_data = <<>>
    /\ ct_milling_data = <<>>
    /\ daily_operations = <<>>
    /\ equipment_usage = EmptyMap
    /\ result = EmptyMap
    /\ outcome = "none"
    /\ call = "none"
    /\ workbook = NoUpload
    /\ args = <<>>
    /\ notice = "none"
    /\ dashboard = EmptyMap

\* A new request of the dashboard constructs a new extractor
NewExtractor ==
    /\ call # "none"
    /\ job_summary' = EmptyMap
    /\ mill_data' = <<>>
    /\ ct_milling_data' = <<>>
    /\ daily_operations' = <<>>
    /\ equipment_usage' = EmptyMap
    /\ result' = EmptyMap
    /\ outcome' = "none"
    /\ call' = "none"
    /\ workbook' = NoUpload
    /\ args' = <<>>
    /\ UNCHANGED <<notice, dashboard>>

\* process_uploaded_file(up) on the extractor, whatever its fields held
ProcessUploaded(up) ==
    LET job == ExtractJobInfoFromUploaded(up.gi)
        mill == ExtractMillData(up.mill, up.mill_draws)
        ct == ExtractCTMillingData(up.ct, up.ct_draws)
        daily == ExtractServicePlans(up.sp, up.day_draws)
        equipment == ExtractEquipmentFromUploaded(up.ft, up.tool_draws)
        analysis == GenerateFrequencyAnalysis(job, mill, ct, daily, equipment)
    IN  /\ job_summary' = job
        /\ mill_data' = mill
        /\ ct_milling_data' = ct
        /\ daily_operations' = daily
        /\ equipment_usage' = equipment
        /\ result' = IF AnalysisRaised(analysis) THEN GetDemoData ELSE analysis
        /\ outcome' = "returned"
        /\ call' = "process_uploaded_file"
        /\ workbook' = up
        /\ args' = <<>>

ProcessUploadedFile ==
    /\ call = "none"
    /\ \E up \in Uploads : ProcessUploaded(up)
    /\ UNCHANGED <<notice, dashboard>>

GetDemoDataCall ==
    /\ call = "none"
    /\ result' = GetDemoData
    /\ outcome' = "returned"
    /\ call' = "get_demo_data"
    /\ UNCHANGED <<job_summary, mill_data, ct_milling_data, daily_operations,
                   equipment_usage, workbook>>
    /\ UNCHANGED <<args, notice, dashboard>>

ExtractJobInfoCall ==
    /\ call = "none"
    /\ \E gi \in GISheets :
        /\ job_summary' = ExtractJobInfoFromUploaded(gi)
        /\ workbook' = [NoUpload EXCEPT !.gi = gi]
    /\ result' = job_summary'
    /\ outcome' = "returned"
    /\ call' = "extract_job_info_from_uploaded"
    /\ UNCHANGED <<mill_data, ct_milling_data, daily_operations, equipment_usage>>
    /\ UNCHANGED <<args, notice, dashboard>>

ExtractMillDataCall ==
    /\ call = "none"
    /\ \E m \in MillInputs :
        /\ mill_data' = ExtractMillData(m[1], m[2])
        /\ workbook' = [NoUpload EXCEPT !.mill = m[1], !.mill_draws = m[2]]
    /\ result' = mill_data'
    /\ outcome' = "returned"
    /\ call' = "extract_mill_data"
    /\ UNCHANGED <<job_summary, ct_milling_data, daily_operations, equipment_usage>>
    /\ UNCHANGED <<args, notice, dashboard>>

ExtractCTMillingDataCall ==
    /\ call = "none"
    /\ \E c \in CTInputs :
        /\ ct_milling_data' = ExtractCTMillingData(c[1], c[2])
        /\ workbook' = [NoUpload EXCEPT !.ct = c[1], !.ct_draws = c[2]]
    /\ result' = ct_milling_data'
    /\ outcome' = "returned"
    /\ call' = "extract_ct_milling_data"
    /\ UNCHANGED <<job_summary, mill_data, daily_operations, equipment_usage>>
    /\ UNCHANGED <<args, notice, dashboard>>

ExtractServicePlansCall ==
    /\ call = "none"
    /\ \E sp \in SPInputs :
        /\ daily_operations' = ExtractServicePlans(sp[1], sp[2])
        /\ workbook' = [NoUpload EXCEPT !.sp = sp[1], !.sp_times = DayTimes(sp[1]),
                                        !.day_draws = sp[2]]
    /\ result' = daily_operations'
    /\ outcome' = "returned"
    /\ call' = "extract_service_plans"
    /\ UNCHANGED <<job_summary, mill_data, ct_milling_data, equipment_usage>>
    /\ UNCHANGED <<args, notice, dashboard>>

ExtractEquipmentCall ==
    /\ call = "none"
    /\ \E ft \in FTInputs :
        /\ equipment_usage' = ExtractEquipmentFromUploaded(ft[1], ft[2])
        /\ workbook' = [NoUpload EXCEPT !.ft = ft[1], !.tool_draws = ft[2]]
    /\ result' = equipment_usage'
    /\ outcome' = "returned"
    /\ call' = "extract_equipment_from_uploaded"
    /\ UNCHANGED <<job_summary, mill_data, ct_milling_data, daily_operations>>
    /\ UNCHANGED <<args, notice, dashboard>>

GenerateFrequencyAnalysisCall ==
    /\ call \in {"none"} \cup ExtractCalls
    /\ LET analysis == GenerateFrequencyAnalysis(job_summary, mill_data,
                           ct_milling_data, daily_operations, equipment_usage)
       IN  IF AnalysisRaised(analysis)
           THEN result' = EmptyMap /\ outcome' = "raised"
           ELSE result' = analysis /\ outcome' = "returned"
    /\ call' = "generate_frequency_analysis"
    /\ UNCHANGED <<job_summary, mill_data, ct_milling_data, daily_operations,
                   equipment_usage, workbook>>
    /\ UNCHANGED <<args, notice, dashboard>>

Next ==
    \/ ProcessUploadedFile
    \/ GetDemoDataCall
    \/ ExtractJobInfoCall
    \/ ExtractMillDataCall
    \/ ExtractCTMillingDataCall
    \/ ExtractServicePlansCall
    \/ ExtractEquipmentCall
    \/ GenerateFrequencyAnalysisCall
    \/ NewExtractor

Spec == Init /\ [][Next]_vars

\* The metric functions applied to extractor states set directly
InitMetrics ==
    /\ \E st \in MetricStates :
        /\ job_summary = st.job
        /\ mill_data = st.mill
        /\ ct_milling_data = st.ct
        /\ daily_operations = st.daily
        /\ equipment_usage = st.equipment
    /\ result = EmptyMap
    /\ outcome = "none"
    /\ call = "none"
    /\ workbook = NoUpload
    /\ args = <<>>
    /\ notice = "none"
    /\ dashboard = EmptyMap

NextMetrics == GenerateFrequencyAnalysisCall

SpecMetrics == InitMetrics /\ [][NextMetrics]_vars

-----------------------------------------------------------------------------
(* Properties *)

Processed == call = "process_uploaded_file"
Analysed == call = "generate_frequency_analysis"

\* C1: for every uploaded workbook, whichever of its sheets can be read
\* (none included), process_uploaded_file returns, and the mapping it
\* returns has every top-level key of the output shape with a value: the
\* job summary with all its fields, every metric group a mapping none of
\* whose divisions failed.
C1_AllKeysPresent ==
    Processed =>
        /\ outcome = "returned"
        /\ DOMAIN result = ResultKeys
        /\ DOMAIN result.job_summary = JobFields
        /\ ~AnalysisRaised(result)
        /\ Len(result.recommendations) >= 1

C1_Witness ==
    /\ Processed
    /\ workbook = UnreadableUpload
    /\ outcome = "returned"
    /\ IsEmptyMap(result.operational_frequency)

\* C2: when no sheet of the uploaded workbook can be read, the result of
\* process_uploaded_file is the canned demo result of get_demo_data().
C2_UnreadableGivesDemo ==
    (Processed /\ workbook = UnreadableUpload) => result = GetDemoData

\* C3: when the General Info, Mill Data or CT Milling sheet cannot be read,
\* the section's extractor returns, and stores in its field, the section's
\* fixed default (the default job summary, the 10 default mill operations,
\* the 5 default CT operations), whatever happened to the other sections.
C3_SectionDefaults ==
    /\ (Processed \/ call = "extract_job_info_from_uploaded") /\ ~workbook.gi.readable
         => /\ outcome = "returned"
            /\ job_summary = DemoJobSummary
            /\ job_summary.customer_name = "Mughees Khan"
            /\ job_summary.duration_days = 7
            /\ IF Processed THEN result.job_summary = job_summary
                            ELSE result = job_summary
    /\ (Processed \/ call = "extract_mill_data") /\ ~workbook.mill.readable
         => /\ outcome = "returned"
            /\ Len(mill_data) = 10
            /\ \A i \in 1..10 :
                 /\ mill_data[i].plug_number = i
                 /\ mill_data[i].drill_time_mins = 350 + 20 * i
                 /\ mill_data[i].success
            /\ Processed \/ result = mill_data
    /\ (Processed \/ call = "extract_ct_milling_data") /\ ~workbook.ct.readable
         => /\ outcome = "returned"
            /\ Len(ct_milling_data) = 5
            /\ \A i \in 1..5 :
                 /\ ct_milling_data[i].plug_number = i
                 /\ ct_milling_data[i].drill_time_mins = 300 + 15 * i
            /\ Processed \/ result = ct_milling_data

\* the mill sheet fails while the General Info and CT sheets are read
C3_Witness ==
    /\ Processed
    /\ ~workbook.mill.readable
    /\ workbook.gi.readable
    /\ workbook.ct.readable
    /\ workbook.sp # {}
    /\ Len(mill_data) = 10

PartlyReadableDays ==
    /\ Processed \/ call = "extract_service_plans"
    /\ workbook.sp # {}
    /\ workbook.sp # 1..NumServicePlans

DaysOf(daily) == {daily[i].day : i \in 1..Len(daily)}

C5_NoNullJobField ==
    (call = "extract_job_info_from_uploaded" /\ workbook.gi.readable) =>
        /\ \A f \in JobFields \ {"duration_days"} : job_summary[f] # None_
        /\ job_summary.duration_days = 7

TotalDays == Len(daily_operations)
TotalActivities == SumSeq([i \in 1..Len(daily_operations) |-> daily_operations[i].activities])
TotalWorkHours == SumSeq([i \in 1..Len(daily_operations) |-> daily_operations[i].work_hours])
JobDuration == IF "duration_days" \in DOMAIN job_summary THEN job_summary.duration_days ELSE 0
TotalTools == Cardinality(DOMAIN equipment_usage)

\* C6 as stated: each metric group of the result is the empty mapping when
\* its source records are empty (efficiency_metrics with the daily records),
\* and computing the groups never raises.
C6_EmptySourceEmptyGroup ==
    Analysed =>
        /\ outcome = "returned"
        /\ daily_operations = <<>> =>
             /\ IsEmptyMap(result.operational_frequency)
             /\ IsEmptyMap(result.time_analysis)
             /\ IsEmptyMap(result.efficiency_metrics)
        /\ TotalTools = 0 => IsEmptyMap(result.equipment_frequency)
        /\ mill_data = <<>> => IsEmptyMap(result.mill_performance)
        /\ ct_milling_data = <<>> => IsEmptyMap(result.ct_performance)

\* C6 amended: operational_frequency and time_analysis (no daily records),
\* equipment_frequency (no equipment), mill_performance (no mill operations)
\* and ct_performance (no CT operations) are the empty mapping when their
\* source records are empty; efficiency_metrics is never empty: it always has
\* its six fields, with both ratios 0 when there are no daily records; and
\* computing the groups never raises.
C6_EmptyGroupsExceptEfficiency ==
    Analysed =>
        /\ outcome = "returned"
        /\ daily_operations = <<>> =>
             /\ IsEmptyMap(result.operational_frequency)
             /\ IsEmptyMap(result.time_analysis)
             /\ result.efficiency_metrics.activities_per_hour = 0
             /\ result.efficiency_metrics.hours_per_day_avg = 0
        /\ DOMAIN result.efficiency_metrics =
             { "activities_per_hour", "hours_per_day_avg", "job_completion_rate",
               "equipment_utilization", "drilling_efficiency", "safety_score" }
        /\ TotalTools = 0 => IsEmptyMap(result.equipment_frequency)
        /\ mill_data = <<>> => IsEmptyMap(result.mill_performance)
        /\ ct_milling_data = <<>> => IsEmptyMap(result.ct_performance)

\* every source collection empty, the job summary present
C6_Witness ==
    /\ Analysed
    /\ outcome = "returned"
    /\ daily_operations = <<>>
    /\ TotalTools = 0
    /\ mill_data = <<>>
    /\ ct_milling_data = <<>>
    /\ JobDuration = 7

ReportedAsZero(group, key) ==
    /\ key \in DOMAIN result[group]
    /\ result[group][key] = 0

\* C7 as stated: generate_frequency_analysis never raises, and each ratio
\* whose denominator is zero is reported as 0.
C7_ZeroDenominatorReportedZero ==
    Analysed =>
        /\ outcome = "returned"
        /\ TotalDays = 0 =>
             /\ ReportedAsZero("operational_frequency", "avg_activities_per_day")
             /\ ReportedAsZero("operational_frequency", "avg_hours_per_day")
        /\ TotalWorkHours = 0 =>
             /\ ReportedAsZero("efficiency_metrics", "activities_per_hour")
             /\ ReportedAsZero("time_analysis", "downtime_percentage")
        /\ JobDuration = 0 => ReportedAsZero("efficiency_metrics", "hours_per_day_avg")
        /\ TotalTools = 0 => ReportedAsZero("equipment_frequency", "deployment_success_rate")

\* C7 amended: generate_frequency_analysis never raises; activities_per_hour
\* (no work hours) and hours_per_day_avg (job duration 0 or missing) are
\* reported as 0; downtime_percentage is reported as 0 when there are daily
\* records without work hours; with no daily records avg_activities_per_day,
\* avg_hours_per_day and downtime_percentage are not reported at all, their
\* groups being the empty mapping, and so is deployment_success_rate with no
\* equipment.
C7_ZeroDenominatorZeroOrAbsent ==
    Analysed =>
        /\ outcome = "returned"
        /\ TotalWorkHours = 0 => ReportedAsZero("efficiency_metrics", "activities_per_hour")
        /\ JobDuration = 0 => ReportedAsZero("efficiency_metrics", "hours_per_day_avg")
        /\ (TotalDays > 0 /\ TotalWorkHours = 0) =>
             ReportedAsZero("time_analysis", "downtime_percentage")
        /\ TotalDays = 0 =>
             /\ "avg_activities_per_day" \notin DOMAIN result.operational_frequency
             /\ "avg_hours_per_day" \notin DOMAIN result.operational_frequency
             /\ "downtime_percentage" \notin DOMAIN result.time_analysis
        /\ TotalDays > 0 =>
             /\ "avg_activities_per_day" \in DOMAIN result.operational_frequency
             /\ "avg_hours_per_day" \in DOMAIN result.operational_frequency
        /\ TotalTools = 0 =>
             "deployment_success_rate" \notin DOMAIN result.equipment_frequency

\* daily records without any work hours, and a job duration of 0
C7_Witness ==
    /\ Analysed
    /\ outcome = "returned"
    /\ TotalDays > 0
    /\ TotalActivities > 0
    /\ TotalWorkHours = 0
    /\ JobDuration = 0
    /\ TotalTools = 0

ActivitiesSeq == [i \in 1..Len(daily_operations) |-> daily_operations[i].activities]

IsFirstMaximum(i) ==
    /\ \A j \in 1..Len(daily_operations) :
         daily_operations[j].activities <= daily_operations[i].activities
    /\ \A j \in 1..(i - 1) :
         daily_operations[j].activities < daily_operations[i].activities

\* C8: for a non-empty sequence of daily records, operational_frequency
\* reports the number of records, the sum of their activity counts, that sum
\* divided by the number of records to the nearest tenth, and as peak day
\* the day index of the first record holding the greatest activity count;
\* the activities 10, 13, 15, 12, 11, 9, 8 give 78, 11.1 and day 3.
C8_OperationalFrequency ==
    (Analysed /\ outcome = "returned" /\ daily_operations # <<>>) =>
        LET freq == result.operational_frequency
            rest == freq.avg_activities_per_day * TotalDays - 10 * TotalActivities
        IN  /\ freq.total_operational_days = TotalDays
            /\ freq.total_activities = TotalActivities
            /\ 2 * rest <= TotalDays /\ 2 * rest >= 0 - TotalDays
            /\ \E i \in 1..TotalDays :
                 /\ IsFirstMaximum(i)
                 /\ freq.peak_activity_day = daily_operations[i].day
            /\ ActivitiesSeq = <<10, 13, 15, 12, 11, 9, 8>> =>
                 /\ freq.total_activities = 78
                 /\ freq.avg_activities_per_day = 111
                 /\ freq.peak_activity_day = 3

\* two records share the greatest activity count, and the later one is not
\* at the position of its day index
C8_Witness ==
    /\ Analysed
    /\ outcome = "returned"
    /\ TotalDays = 3
    /\ daily_operations[1].activities = 8
    /\ daily_operations[2].activities = 14
    /\ daily_operations[3].activities = 14
    /\ daily_operations[2].day = 5
    /\ result.operational_frequency.peak_activity_day = 5

ToolsBelowFull ==
    Cardinality({k \in DOMAIN equipment_usage : equipment_usage[k].success_rate < 100})

\* C9: for a non-empty equipment mapping, equipment_frequency reports the
\* number of entries, the number of entries with a success rate below 100,
\* and as deployment success rate the share of the other entries in percent
\* to the nearest hundredth; 12 tools, 2 of them below 100, give 83.33.
C9_EquipmentFrequency ==
    (Analysed /\ outcome = "returned" /\ TotalTools > 0) =>
        LET freq == result.equipment_frequency
            rest == freq.deployment_success_rate * TotalTools
                      - (TotalTools - ToolsBelowFull) * 10000
        IN  /\ freq.total_tools_deployed = TotalTools
            /\ freq.tools_with_issues = ToolsBelowFull
            /\ 2 * rest <= TotalTools /\ 2 * rest >= 0 - TotalTools
            /\ (TotalTools = 12 /\ ToolsBelowFull = 2) =>
                 freq.deployment_success_rate = 8333

C9_Witness ==
    /\ Analysed
    /\ outcome = "returned"
    /\ TotalTools = 12
    /\ ToolsBelowFull = 2
    /\ result.equipment_frequency.deployment_success_rate = 8333

Buckets == {"excellent", "good", "poor"}

ToolsInBucket(bucket) ==
    { k \in DOMAIN equipment_usage :
        LET rate == equipment_usage[k].success_rate
        IN  CASE bucket = "excellent" -> rate >= 95
              [] bucket = "good" -> rate >= 85 /\ rate < 95
              [] OTHER -> rate < 85 }

\* C10 as stated: performance_distribution has an entry for each of the
\* three buckets (excellent from 95, good from 85 to below 95, poor below),
\* each entry counts the tools of its bucket, and the counts sum to
\* total_tools_deployed.
C10_ThreeBuckets ==
    (Analysed /\ outcome = "returned" /\ TotalTools > 0) =>
        LET dist == result.equipment_frequency.performance_distribution
        IN  /\ DOMAIN dist = Buckets
            /\ \A b \in Buckets : dist[b] = Cardinality(ToolsInBucket(b))

\* C10 amended: performance_distribution has an entry exactly for each
\* bucket that holds at least one tool (excellent from 95, good from 85 to
\* below 95, poor below), a bucket without tools has no entry; each entry
\* counts the tools of its bucket, every tool is in exactly one bucket, and
\* the counts sum to total_tools_deployed.
C10_NonEmptyBuckets ==
    (Analysed /\ outcome = "returned" /\ TotalTools > 0) =>
        LET dist == result.equipment_frequency.performance_distribution
            n(b) == IF b \in DOMAIN dist THEN dist[b] ELSE 0
        IN  /\ DOMAIN dist = {b \in Buckets : ToolsInBucket(b) # {}}
            /\ \A b \in DOMAIN dist : dist[b] = Cardinality(ToolsInBucket(b))
            /\ \A k \in DOMAIN equipment_usage :
                 Cardinality({b \in Buckets : k \in ToolsInBucket(b)}) = 1
            /\ n("excellent") + n("good") + n("poor") =
                 result.equipment_frequency.total_tools_deployed

\* tools at 95 and at 94, none below 85: two entries, no entry for poor
C10_Witness ==
    /\ Analysed
    /\ outcome = "returned"
    /\ \E k \in DOMAIN equipment_usage : equipment_usage[k].success_rate = 95
    /\ \E k \in DOMAIN equipment_usage : equipment_usage[k].success_rate = 94
    /\ DOMAIN result.equipment_frequency.performance_distribution = {"excellent", "good"}

\* The result of the rules and metric functions applied to the extractor state
Computed == (Processed \/ Analysed) /\ outcome = "returned" /\ result # GetDemoData

MillCount == Len(mill_data)
\* sum of the drill times of the mill operations, in tenths of a minute
MillTimeSum == SumSeq(Map(mill_data, drillTimeOf))
MillMeanBelow45 == MillCount > 0 /\ MillTimeSum < 450 * MillCount

\* C11: drilling_efficiency is 85 exactly when there are mill operations and
\* the mean of their drill times is below 45 minutes; with a mean of 45 or
\* more, or with no mill operation, it is 75; safety_score is 98 always.
C11_DrillingEfficiency ==
    Computed =>
        LET eff == result.efficiency_metrics
        IN  /\ eff.drilling_efficiency = 85 <=> MillMeanBelow45
            /\ eff.drilling_efficiency = 75 <=> ~MillMeanBelow45
            /\ eff.safety_score = 98

\* ten operations, some of 54 minutes, whose mean is still below 45
C11_Witness ==
    /\ Computed
    /\ MillCount = 10
    /\ \E i \in 1..MillCount : mill_data[i].drill_time_mins = 540
    /\ MillMeanBelow45
    /\ result.efficiency_metrics.drilling_efficiency = 85

MillSuccesses == Cardinality({i \in 1..MillCount : mill_data[i].success})

CTCount == Len(ct_milling_data)
CTTimeSum == SumSeq(Map(ct_milling_data, drillTimeOf))

\* The efficiency ratings follow the exact means: High below 45 minutes for
\* the mill operations, Excellent below 40 minutes for the CT operations.
RatingsFollowMeans ==
    /\ MillCount > 0 =>
         LET rating == result.mill_performance.efficiency_rating
         IN  /\ rating = "High" <=> MillTimeSum < 450 * MillCount
             /\ rating = "Medium" <=> MillTimeSum >= 450 * MillCount
    /\ CTCount > 0 =>
         LET rating == result.ct_performance.efficiency_rating
         IN  /\ rating = "Excellent" <=> CTTimeSum < 400 * CTCount
             /\ rating = "Good" <=> CTTimeSum >= 400 * CTCount

\* C12 as stated: for a non-empty list of mill operations success_rate is
\* exactly 100 * successes / operations (success_rate is held in tenths of a
\* percent), and the ratings follow the means.
C12_ExactSuccessRate ==
    Computed =>
        /\ MillCount > 0 =>
             result.mill_performance.success_rate * MillCount = 1000 * MillSuccesses
        /\ RatingsFollowMeans

\* C12 amended: success_rate is 100 * successes / operations rounded to one
\* decimal (within half a tenth of the exact quotient, and the quotient itself
\* when that has one decimal); efficiency_rating is High exactly when the mean
\* mill drill time is below 45 minutes, else Medium; for CT operations it is
\* Excellent exactly when the mean is below 40 minutes, else Good.
C12_RoundedSuccessRate ==
    Computed =>
        /\ MillCount > 0 =>
             LET rest == result.mill_performance.success_rate * MillCount
                           - 1000 * MillSuccesses
             IN  2 * rest <= MillCount /\ 2 * rest >= 0 - MillCount
        /\ RatingsFollowMeans

\* 4 of 9 operations successful: 44.4, not 44.44...
C12_Witness ==
    /\ Computed
    /\ MillCount = 9
    /\ MillSuccesses = 4
    /\ result.mill_performance.success_rate = 444
    /\ result.mill_performance.efficiency_rating = "Medium"

Recs == result.recommendations

\* The rule an advisory comes from: 1 drill time, 2 maintenance,
\* 3 efficiency sharing, 4 safety; 0 for any other entry.
RuleOf(advisory) ==
    CASE advisory.text \in {DrillTimeWarning.text, DrillTimeExcellent.text} -> 1
      [] advisory.text = MaintenanceAdvisory(0).text -> 2
      [] advisory.text = EfficiencyAdvisory.text -> 3
      [] advisory.text = SafetyAdvisory.text -> 4
      [] OTHER -> 0

EntriesOfRule(rule) == {i \in 1..Len(Recs) : RuleOf(Recs[i]) = rule}

\* C13: the recommendations hold 2 to 4 entries, each from one of the four
\* rules, in the order drill time, maintenance, efficiency sharing, safety
\* (so no rule contributes twice); the first entry is the one drill-time
\* advisory and the last is the safety advisory.
C13_RuleOrder ==
    Computed =>
        /\ Len(Recs) \in 2..4
        /\ \A i \in 1..Len(Recs) : RuleOf(Recs[i]) # 0
        /\ \A i, j \in 1..Len(Recs) : i < j => RuleOf(Recs[i]) < RuleOf(Recs[j])
        /\ EntriesOfRule(1) = {1}
        /\ EntriesOfRule(4) = {Len(Recs)}

\* all four rules fire
C13_Witness ==
    /\ Computed
    /\ Len(Recs) = 4
    /\ RuleOf(Recs[2]) = 2
    /\ RuleOf(Recs[3]) = 3

FlaggedTools == {k \in DOMAIN equipment_usage : equipment_usage[k].maintenance_due}

\* C14: the maintenance advisory is among the recommendations exactly when
\* at least one equipment record has maintenance_due set, and the number it
\* states is the number of such records; without equipment, or without a
\* flagged tool, there is none.
C14_MaintenanceAdvisory ==
    Computed =>
        /\ EntriesOfRule(2) # {} <=> FlaggedTools # {}
        /\ \A i \in EntriesOfRule(2) : Recs[i].count = Cardinality(FlaggedTools)
        /\ DOMAIN equipment_usage = {} => EntriesOfRule(2) = {}

\* three tools, two of them flagged: the advisory states 2
C14_Witness ==
    /\ Computed
    /\ Cardinality(DOMAIN equipment_usage) = 3
    /\ Cardinality(FlaggedTools) = 2
    /\ \E i \in EntriesOfRule(2) : Recs[i].count = 2

\* C15: the efficiency-sharing advisory is among the recommendations exactly
\* when drilling_efficiency of efficiency_metrics in the same result is
\* above 80.
C15_EfficiencySharing ==
    Computed =>
        (EntriesOfRule(3) # {} <=> result.efficiency_metrics.drilling_efficiency > 80)

C15_Witness ==
    /\ Computed
    /\ result.efficiency_metrics.drilling_efficiency = 85
    /\ EntriesOfRule(3) = {2}
    /\ Len(Recs) = 3

-----------------------------------------------------------------------------
(* CellLookup on its own.  The lookup by label is not part of                *)
(* src/yjos_extractor.py, whose job-metadata extraction uses positions only; *)
(* it is modelled from the description of CellLookup.  A text is a sequence  *)
(* of characters there, so that matching is computed.                        *)

MaxGridRows == 2
MaxGridCols == 3
MaxFilledCells == 3     \* cells of a grid that are not empty

BlankCell == [kind |-> "nan", num |-> 0, str |-> <<>>]
TextCell(chars) == [kind |-> "str", num |-> 0, str |-> chars]
NotFound == [kind |-> "none", num |-> 0, str |-> <<>>]

LowerChar(ch) ==
    CASE ch = "N" -> "n"
      [] ch = "O" -> "o"
      [] OTHER -> ch

LowerText(chars) == [i \in 1..Len(chars) |-> LowerChar(chars[i])]

ContainsText(chars, part) ==
    \E i \in 0..(Len(chars) - Len(part)) : SubSeq(chars, i + 1, i + Len(part)) = part

LabelMatches(cell, label) ==
    NotNa(cell) /\ ContainsText(LowerText(cell.str), LowerText(label))

\* Mutant: an occurrence of the label without a value beside or below it is
\* passed over and a later occurrence governs.
RECURSIVE ScanForLabelAnyOccurrence(_, _, _)
ScanForLabelAnyOccurrence(df, label, k) ==
    IF k >= df.nrows * df.ncols THEN NotFound
    ELSE
    LET row == k \div df.ncols
        col == k % df.ncols
        right == <<row, col + 1>>
        below == <<row + 1, col>>
    IN  IF LabelMatches(df.cells[<<row, col>>], label)
           /\ col + 1 < df.ncols /\ NotNa(df.cells[right])
        THEN df.cells[right]
        ELSE IF LabelMatches(df.cells[<<row, col>>], label)
                /\ row + 1 < df.nrows /\ NotNa(df.cells[below])
        THEN df.cells[below]
        ELSE ScanForLabelAnyOccurrence(df, label, k + 1)

\* The row-major scan from cell number k on (cell k is in row k \div ncols,
\* column k % ncols); the first matching cell decides.
RECURSIVE ScanForLabel(_, _, _)
ScanForLabel(df, label, k) ==
    IF k >= df.nrows * df.ncols THEN NotFound
    ELSE
    LET row == k \div df.ncols
        col == k % df.ncols
        right == <<row, col + 1>>
        below == <<row + 1, col>>
    IN  IF LabelMatches(df.cells[<<row, col>>], label)
        THEN IF col + 1 < df.ncols /\ NotNa(df.cells[right])
             THEN df.cells[right]
             ELSE IF row + 1 < df.nrows /\ NotNa(df.cells[below])
             THEN df.cells[below]
             ELSE NotFound
        ELSE ScanForLabel(df, label, k + 1)

FindCellValue(df, label) == ScanForLabel(df, label, 0)

LookupTexts == {TextCell(<<"N", "o", ":">>), TextCell(<<"7">>)}
LookupLabels == {<<"n", "O">>, <<"x">>}

\* The nr x nc grid whose cells are empty except those `filled` gives a text
Grid(nr, nc, filled) ==
    [ nrows |-> nr, ncols |-> nc,
      cells |-> [ p \in (0..(nr - 1)) \X (0..(nc - 1)) |->
                    IF p \in DOMAIN filled THEN filled[p] ELSE BlankCell ] ]

GridFillings(nr, nc) ==
    UNION { [s -> LookupTexts] :
            s \in { x \in SUBSET ((0..(nr - 1)) \X (0..(nc - 1))) :
                      Cardinality(x) <= MaxFilledCells } }

LookupGrids ==
    UNION { { Grid(nr, nc, filled) : filled \in GridFillings(nr, nc) } :
            nr \in 0..MaxGridRows, nc \in 0..MaxGridCols }

FindCellValueCall ==
    /\ call = "none"
    /\ \E df \in LookupGrids, label \in LookupLabels :
        /\ result' = FindCellValue(df, label)
        /\ workbook' = [NoUpload EXCEPT !.gi = df]
        /\ args' = label
    /\ outcome' = "returned"
    /\ call' = "_find_cell_value"
    /\ UNCHANGED <<job_summary, mill_data, ct_milling_data, daily_operations,
                   equipment_usage, notice, dashboard>>

\* _find_cell_value_by_position at the positions extract_job_info_from_uploaded
\* passes, on General Info sheets of every size and filling
FindCellValueByPositionCall ==
    /\ call = "none"
    /\ \E df \in {s \in GISheets : s.readable}, f \in JobCellFields :
        /\ result' = FindCellValueByPosition(df, JobCellPosition[f][1],
                                             JobCellPosition[f][2])
        /\ workbook' = [NoUpload EXCEPT !.gi = df]
        /\ args' = JobCellPosition[f]
    /\ outcome' = "returned"
    /\ call' = "_find_cell_value_by_position"
    /\ UNCHANGED <<job_summary, mill_data, ct_milling_data, daily_operations,
                   equipment_usage, notice, dashboard>>

NextLookup ==
    \/ FindCellValueCall
    \/ FindCellValueByPositionCall
    \/ NewExtractor

SpecLookup == Init /\ [][NextLookup]_vars

LabelLookedUp == call = "_find_cell_value"
PositionLookedUp == call = "_find_cell_value_by_position"

RowMajorBefore(p, q) == p[1] < q[1] \/ (p[1] = q[1] /\ p[2] < q[2])

\* C16: the lookup by label takes the first cell in row-major order whose
\* text contains the label, letter case ignored; it returns the cell to the
\* right of that cell if there is one and it is not empty, otherwise the
\* cell below it if there is one and it is not empty, otherwise not found;
\* no later occurrence of the label is considered, and without any
\* occurrence the lookup returns not found.
C16_LabelLookup ==
    LabelLookedUp =>
        LET df == workbook.gi
            occurrences == {p \in DOMAIN df.cells : LabelMatches(df.cells[p], args)}
        IN  IF occurrences = {} THEN result = NotFound
            ELSE
            LET first == CHOOSE p \in occurrences :
                           \A q \in occurrences \ {p} : RowMajorBefore(p, q)
                right == <<first[1], first[2] + 1>>
                below == <<first[1] + 1, first[2]>>
            IN  IF right \in DOMAIN df.cells /\ NotNa(df.cells[right])
                THEN result = df.cells[right]
                ELSE IF below \in DOMAIN df.cells /\ NotNa(df.cells[below])
                THEN result = df.cells[below]
                ELSE result = NotFound

\* the label at the start of both rows, in another letter case than asked
\* for; nothing to the right of the first occurrence, so the cell below it is
\* returned, not the value beside the second occurrence
C16_Witness ==
    /\ LabelLookedUp
    /\ args = <<"n", "O">>
    /\ workbook.gi.nrows = 2 /\ workbook.gi.ncols = 2
    /\ workbook.gi.cells[<<0, 0>>] = TextCell(<<"N", "o", ":">>)
    /\ workbook.gi.cells[<<0, 1>>] = BlankCell
    /\ workbook.gi.cells[<<1, 0>>] = TextCell(<<"N", "o", ":">>)
    /\ workbook.gi.cells[<<1, 1>>] = TextCell(<<"7">>)
    /\ result = TextCell(<<"N", "o", ":">>)

DaysExtracted == call \in {"process_uploaded_file", "extract_service_plans"}

Clamp(n, lo, hi) == IF n < lo THEN lo ELSE IF n > hi THEN hi ELSE n

\* C18: every readable day sheet has a daily record whose activity count is
\* the number of time-of-day texts in the sheet's cells clamped to 1..15
\* (3 give 3, 20 give 15, none gives 1), so every activity count of the
\* daily records lies in 1..15.
C18_ActivitiesFromTimes ==
    DaysExtracted =>
        /\ DaysOf(daily_operations) = workbook.sp
        /\ \A i \in 1..Len(daily_operations) :
             LET rec == daily_operations[i]
             IN  /\ rec.activities = Clamp(workbook.sp_times[rec.day], 1, 15)
                 /\ rec.activities \in 1..15

-----------------------------------------------------------------------------
(* The dashboard (src/app.py, main).  Streamlit runs main again on every    *)
(* interaction; each run that has data builds a new extractor.              *)

SuccessNotice == "Drillout file processed successfully!"
FallbackNotice == "File processing failed, using demo data."
DemoNotice == "Demo drillout data loaded successfully!"

\* A well-formed workbook, or one with some or none of its day and tool
\* sheets, with the draws of one run; and the file that cannot be read
AppUploads ==
    {UnreadableUpload} \cup
    { Upload(FullGI, mill, TypicalCT, sp, ft) :
        mill \in { m \in MillInputs :
                     /\ m[1].nrows = 25
                     /\ \A r \in DOMAIN m[1].colA : ~NotNa(m[1].colA[r])
                     /\ \A r \in DOMAIN m[2].time : m[2].time[r] = m[2].time[15]
                     /\ m[2].time[15] \in {35, 45}
                     /\ \A r \in DOMAIN m[2].minute : m[2].minute[r] = 0 },
        sp \in { x \in SPInputs : x[1] \in {{}, {2}, 1..NumServicePlans} },
        ft \in { x \in FTInputs : x[1] \in {{}, {2, 3}, 1..NumToolSheets} } }

\* main with a file in the uploader: try process_uploaded_file, on an
\* exception warn and take the demo data; then display_dashboard(data)
MainUpload ==
    \E up \in AppUploads :
        /\ ProcessUploaded(up)
        /\ IF outcome' = "raised"
           THEN notice' = FallbackNotice /\ dashboard' = GetDemoData
           ELSE notice' = SuccessNotice /\ dashboard' = result'

\* main with the demo box ticked and no file
MainDemo ==
    /\ job_summary' = EmptyMap
    /\ mill_data' = <<>>
    /\ ct_milling_data' = <<>>
    /\ daily_operations' = <<>>
    /\ equipment_usage' = EmptyMap
    /\ result' = GetDemoData
    /\ outcome' = "returned"
    /\ call' = "get_demo_data"
    /\ workbook' = NoUpload
    /\ args' = <<>>
    /\ notice' = DemoNotice
    /\ dashboard' = GetDemoData

\* main with neither: no extractor is built and no dashboard is rendered
MainIdle ==
    /\ job_summary' = EmptyMap
    /\ mill_data' = <<>>
    /\ ct_milling_data' = <<>>
    /\ daily_operations' = <<>>
    /\ equipment_usage' = EmptyMap
    /\ result' = EmptyMap
    /\ outcome' = "none"
    /\ call' = "none"
    /\ workbook' = NoUpload
    /\ args' = <<>>
    /\ notice' = "none"
    /\ dashboard' = EmptyMap

NextApp ==
    \/ MainUpload
    \/ MainDemo
    \/ MainIdle

SpecApp == Init /\ [][NextApp]_vars

\* the parts of an upload that are the file, not the draws of a run
SameFile(a, b) ==
    /\ a.gi = b.gi
    /\ a.mill = b.mill
    /\ a.ct = b.ct
    /\ a.sp = b.sp
    /\ a.sp_times = b.sp_times
    /\ a.ft = b.ft

WellFormed(up) ==
    /\ up.gi = FullGI
    /\ up.mill.readable
    /\ up.ct.readable
    /\ up.sp = 1..NumServicePlans
    /\ up.ft = 1..NumToolSheets

\* C19: when process_uploaded_file runs again on the same well-formed
\* workbook, the second result has the same job_summary, the same
\* daily_breakdown and the same equipment_usage as the first, and so the
\* same metrics derived from them alone; the runs differ at most in the
\* mill and CT operations.
C19_RunsAgree ==
    [][ (Processed /\ Processed' /\ WellFormed(workbook)
           /\ SameFile(workbook, workbook'))
        => /\ result'.job_summary = result.job_summary
           /\ result'.daily_breakdown = result.daily_breakdown
           /\ result'.equipment_usage = result.equipment_usage
           /\ result'.operational_frequency = result.operational_frequency
           /\ result'.equipment_frequency = result.equipment_frequency
           /\ result'.time_analysis = result.time_analysis ]_vars

FileUnreadable ==
    /\ ~workbook.gi.readable
    /\ ~workbook.mill.readable
    /\ ~workbook.ct.readable
    /\ workbook.sp = {}
    /\ workbook.ft = {}

\* C20: after an upload the dashboard is rendered, and when the file could
\* not be read, so that the data shown are the substituted defaults, the
\* sidebar shows the fallback notice and not the success message.
C20_FallbackNoticed ==
    (Processed /\ notice # "none") =>
        /\ dashboard # EmptyMap
        /\ FileUnreadable => (notice = FallbackNotice /\ notice # SuccessNotice)

-----------------------------------------------------------------------------
(* The drilling-report export of display_dashboard (src/app.py).             *)

\* The four display checkboxes of the sidebar
DisplayToggles ==
    [ show_drilling_performance : BOOLEAN, show_detailed_breakdown : BOOLEAN,
      show_equipment_analysis : BOOLEAN, show_recommendations : BOOLEAN ]

\* mill_perf and ct_perf, equipment_usage, and recommendations are locals
\* assigned only inside the section their checkbox shows: with a section
\* hidden the report expression reads an unassigned local and raises.
ReportRaises(show) ==
    \/ ~show.show_drilling_performance
    \/ ~show.show_equipment_analysis
    \/ ~show.show_recommendations

DrillingReport(data) ==
    LET job_info == Get(data, "job_summary", EmptyMap)
        ops_freq == Get(data, "operational_frequency", EmptyMap)
        efficiency == Get(data, "efficiency_metrics", EmptyMap)
        equipment_freq == Get(data, "equipment_frequency", EmptyMap)
        mill_perf == Get(data, "mill_performance", EmptyMap)
        ct_perf == Get(data, "ct_performance", EmptyMap)
        equipment == Get(data, "equipment_usage", EmptyMap)
        recommendations == Get(data, "recommendations", GetDemoData.recommendations)
    IN  [ job_information |-> job_info,
          drilling_performance |->
              [ mill_operations |-> mill_perf,
                ct_operations |-> ct_perf,
                overall_efficiency |-> Get(efficiency, "drilling_efficiency", 88) ],
          key_metrics |->
              [ total_activities |-> Get(ops_freq, "total_activities", 78),
                total_work_hours |-> Get(ops_freq, "total_work_hours", 6850),
                equipment_success_rate |->
                    Get(equipment_freq, "deployment_success_rate", 8330),
                safety_score |-> Get(efficiency, "safety_score", 98) ],
          equipment_status |-> equipment,
          recommendations |-> recommendations ]

\* The 'Download Drilling Report' button pressed on a rendered dashboard
DownloadDrillingReport ==
    /\ dashboard # EmptyMap
    /\ call # "download_drilling_report"
    /\ \E show \in DisplayToggles :
        /\ args' = show
        /\ IF ReportRaises(show)
           THEN result' = EmptyMap /\ outcome' = "raised"
           ELSE result' = DrillingReport(dashboard) /\ outcome' = "returned"
    /\ call' = "download_drilling_report"
    /\ UNCHANGED <<job_summary, mill_data, ct_milling_data, daily_operations,
                   equipment_usage, workbook, notice, dashboard>>

NextExport ==
    \/ call = "none" /\ MainUpload
    \/ call = "none" /\ MainDemo
    \/ DownloadDrillingReport

SpecExport == Init /\ [][NextExport]_vars

Exported == call = "download_drilling_report"

\* the exported value is the value the result holds under that key
PassedThrough(exported, group, key) == key \in DOMAIN group /\ exported = group[key]

\* C21: for every result shown and every setting of the four display
\* checkboxes the drilling report is produced without error, and each
\* value in it is the value of the result: job information, mill and CT
\* performance, equipment status and recommendations as they are, and total
\* activities, total work hours, equipment success rate, overall efficiency
\* and safety score taken from the result's groups, none of them a constant
\* standing in for a key the group lacks.
C21_ExportPassThrough ==
    Exported =>
        /\ outcome = "returned"
        /\ result.job_information = dashboard.job_summary
        /\ result.drilling_performance.mill_operations = dashboard.mill_performance
        /\ result.drilling_performance.ct_operations = dashboard.ct_performance
        /\ result.equipment_status = dashboard.equipment_usage
        /\ result.recommendations = dashboard.recommendations
        /\ PassedThrough(result.drilling_performance.overall_efficiency,
                         dashboard.efficiency_metrics, "drilling_efficiency")
        /\ PassedThrough(result.key_metrics.safety_score,
                         dashboard.efficiency_metrics, "safety_score")
        /\ PassedThrough(result.key_metrics.total_activities,
                         dashboard.operational_frequency, "total_activities")
        /\ PassedThrough(result.key_metrics.total_work_hours,
                         dashboard.operational_frequency, "total_work_hours")
        /\ PassedThrough(result.key_metrics.equipment_success_rate,
                         dashboard.equipment_frequency, "deployment_success_rate")

\* The two ways the export departs from the result
C21_RaisesWhenSectionHidden ==
    Exported /\ outcome = "raised" /\ ~args.show_recommendations

C21_ConstantSubstituted ==
    /\ Exported /\ outcome = "returned"
    /\ dashboard.operational_frequency = EmptyMap
    /\ result.key_metrics.total_activities = 78

Demoed == call = "get_demo_data"

\* `stored` is `computed` rounded to the precision the canned value is
\* written with (unit 10: one decimal of a value held in hundredths)
AtStoredPrecision(stored, computed, unit) == stored = RoundDiv(computed, unit) * unit

\* C22: the metric groups of the canned demo result are what the metric
\* functions compute from the demo result's own daily_breakdown,
\* equipment_usage and job_summary, to the precision the canned values
\* are written with: operational_frequency, equipment_frequency with its
\* performance_distribution, time_analysis with the minimum and maximum
\* daily hours, and efficiency_metrics.
C22_DemoConsistent ==
    Demoed =>
        LET ops == AnalyzeOperationalFrequency(result.daily_breakdown)
            freq == AnalyzeEquipmentFrequency(result.equipment_usage)
            time == AnalyzeTimePatterns(result.daily_breakdown)
            eff == CalculateEfficiencyMetrics(result.job_summary,
                       result.daily_breakdown, result.equipment_usage, <<>>)
            effHigh == CalculateEfficiencyMetrics(result.job_summary,
                           result.daily_breakdown, result.equipment_usage,
                           GetDemoMillData)
            d == result
        IN  /\ d.operational_frequency.total_operational_days = ops.total_operational_days
            /\ d.operational_frequency.total_activities = ops.total_activities
            /\ d.operational_frequency.avg_activities_per_day = ops.avg_activities_per_day
            /\ d.operational_frequency.total_work_hours = ops.total_work_hours
            /\ AtStoredPrecision(d.operational_frequency.avg_hours_per_day,
                                 ops.avg_hours_per_day, 10)
            /\ d.operational_frequency.peak_activity_day = ops.peak_activity_day
            /\ d.equipment_frequency.total_tools_deployed = freq.total_tools_deployed
            /\ d.equipment_frequency.tools_with_issues = freq.tools_with_issues
            /\ AtStoredPrecision(d.equipment_frequency.deployment_success_rate,
                                 freq.deployment_success_rate, 10)
            /\ d.equipment_frequency.performance_distribution =
                 freq.performance_distribution
            /\ AtStoredPrecision(d.time_analysis.avg_daily_hours, time.avg_daily_hours, 10)
            /\ d.time_analysis.max_daily_hours = time.max_daily_hours
            /\ d.time_analysis.min_daily_hours = time.min_daily_hours
            /\ d.time_analysis.total_downtime = time.total_downtime
            /\ AtStoredPrecision(d.time_analysis.downtime_percentage,
                                 time.downtime_percentage, 10)
            /\ d.efficiency_metrics.activities_per_hour = eff.activities_per_hour
            /\ AtStoredPrecision(d.efficiency_metrics.hours_per_day_avg,
                                 eff.hours_per_day_avg, 10)
            /\ d.efficiency_metrics.equipment_utilization = eff.equipment_utilization
            /\ d.efficiency_metrics.drilling_efficiency
                 \in {eff.drilling_efficiency, effHigh.drilling_efficiency}
            /\ d.efficiency_metrics.safety_score = eff.safety_score

\* What of C22 does hold: every canned metric except the performance
\* distribution, the minimum daily hours and the drilling efficiency
C22_DemoConsistentElsewhere ==
    Demoed =>
        LET ops == AnalyzeOperationalFrequency(result.daily_breakdown)
            freq == AnalyzeEquipmentFrequency(result.equipment_usage)
            time == AnalyzeTimePatterns(result.daily_breakdown)
            eff == CalculateEfficiencyMetrics(result.job_summary,
                       result.daily_breakdown, result.equipment_usage, <<>>)
            d == result
        IN  /\ d.operational_frequency.total_activities = ops.total_activities
            /\ d.operational_frequency.avg_activities_per_day = ops.avg_activities_per_day
            /\ d.operational_frequency.total_work_hours = ops.total_work_hours
            /\ AtStoredPrecision(d.operational_frequency.avg_hours_per_day,
                                 ops.avg_hours_per_day, 10)
            /\ d.operational_frequency.peak_activity_day = ops.peak_activity_day
            /\ d.equipment_frequency.tools_with_issues = freq.tools_with_issues
            /\ AtStoredPrecision(d.equipment_frequency.deployment_success_rate,
                                 freq.deployment_success_rate, 10)
            /\ freq.performance_distribution = [excellent |-> 10, good |-> 1, poor |-> 1]
            /\ AtStoredPrecision(d.time_analysis.avg_daily_hours, time.avg_daily_hours, 10)
            /\ d.time_analysis.max_daily_hours = time.max_daily_hours
            /\ time.min_daily_hours = 750
            /\ d.time_analysis.total_downtime = time.total_downtime
            /\ AtStoredPrecision(d.time_analysis.downtime_percentage,
                                 time.downtime_percentage, 10)
            /\ d.efficiency_metrics.activities_per_hour = eff.activities_per_hour
            /\ AtStoredPrecision(d.efficiency_metrics.hours_per_day_avg,
                                 eff.hours_per_day_avg, 10)
            /\ d.efficiency_metrics.equipment_utilization = eff.equipment_utilization

\* C23: after extract_service_plans the daily records are one for each
\* readable sheet SPn, n in 1..10, with day n: the days are at least 1,
\* pairwise distinct and strictly increasing along the sequence.
C23_OneRecordPerReadableDay ==
    DaysExtracted =>
        /\ Len(daily_operations) = Cardinality(workbook.sp)
        /\ DaysOf(daily_operations) = workbook.sp
        /\ workbook.sp \subseteq 1..10
        /\ \A i \in 1..Len(daily_operations) : daily_operations[i].day >= 1
        /\ \A i, j \in 1..Len(daily_operations) :
             i < j => daily_operations[i].day < daily_operations[j].day
        /\ Processed => result.daily_breakdown = daily_operations

\* sheets SP1 and SP3 readable, SP2 not: two records, days 1 and 3
C23_Witness ==
    /\ DaysExtracted
    /\ workbook.sp = {1, 3}
    /\ Len(daily_operations) = 2
    /\ daily_operations[1].day = 1
    /\ daily_operations[2].day = 3

ToolsExtracted == call \in {"process_uploaded_file", "extract_equipment_from_uploaded"}

ToolFields ==
    {"usage_count", "success_rate", "avg_deployment_time", "tool_type",
     "maintenance_due"}

\* C24: after extract_equipment_from_uploaded the mapping has the key FTn
\* exactly for the n in 1..15 whose sheet was read, nothing for a sheet
\* that was not, and each entry holds all five fields with values: a usage
\* count, a success rate within 0..100, a deployment time, a tool type and
\* the maintenance flag.
C24_EntryPerReadableTool ==
    ToolsExtracted =>
        /\ DOMAIN equipment_usage = workbook.ft
        /\ workbook.ft \subseteq 1..15
        /\ \A k \in DOMAIN equipment_usage :
             LET tool == equipment_usage[k]
             IN  /\ DOMAIN tool = ToolFields
                 /\ tool.usage_count \in 1..3
                 /\ tool.success_rate \in 0..100
                 /\ tool.avg_deployment_time \in 150..450
                 /\ tool.tool_type = GetToolType(k)
                 /\ tool.maintenance_due \in BOOLEAN
        /\ Processed => result.equipment_usage = equipment_usage

\* FT1 and FT3 readable, FT2 not: entries for FT1 and FT3 only
C24_Witness ==
    /\ ToolsExtracted
    /\ workbook.ft = {1, 3}
    /\ DOMAIN equipment_usage = {1, 3}
    /\ equipment_usage[3].tool_type = "Mill"

MillExtracted ==
    call \in {"process_uploaded_file", "extract_mill_data"} /\ workbook.mill.readable
CTExtracted ==
    call \in {"process_uploaded_file", "extract_ct_milling_data"} /\ workbook.ct.readable

\* the rows among `rows` the loop body gets through
RowsRead(sheet, rows) ==
    {r \in rows : r < sheet.nrows /\ sheet.colA[r].kind # "str"}

IsKeyedByPlug(ops) ==
    \A i, j \in 1..Len(ops) : i < j => ops[i].plug_number < ops[j].plug_number

\* C26: whatever column A of the sheet holds (numbers, empty cells, or
\* both), the plug numbers of the extracted mill operations, and those of
\* the extracted CT operations, are pairwise distinct and increase along
\* the sequence.
C26_KeyedByPlug ==
    /\ MillExtracted => IsKeyedByPlug(mill_data)
    /\ CTExtracted => IsKeyedByPlug(ct_milling_data)

\* What does hold: with column A empty throughout, or numbered in row
\* order, the plug numbers increase
C26_KeyedByPlugWhenUniform ==
    (MillExtracted
       /\ (\/ \A r \in 15..24 : workbook.mill.colA[r].kind # "num"
           \/ \A r \in 15..24 : workbook.mill.colA[r] = NumCell(r - 14)))
      => IsKeyedByPlug(mill_data)

-----------------------------------------------------------------------------
(* One extractor instance used for several calls in a row.  The caller     *)
(* keeps the result of the call before in dashboard.                        *)

\* The file that cannot be read, and workbooks with none or one of the day
\* sheets and none or one of the tool sheets
ReuseUploads ==
    {UnreadableUpload} \cup
    { Upload(FullGI, TypicalMill, TypicalCT, sp, ft) :
        sp \in { x \in SPInputs : x[1] \in {{}, {2}} },
        ft \in { x \in FTInputs : x[1] \in {{}, {3}} } }

\* process_uploaded_file on the instance as the call before left it
ProcessUploadedFileAgain ==
    /\ \E up \in ReuseUploads : ProcessUploaded(up)
    /\ dashboard' = result
    /\ UNCHANGED notice

\* get_demo_data on the instance as the call before left it
GetDemoDataAgain ==
    /\ result' = GetDemoData
    /\ outcome' = "returned"
    /\ call' = "get_demo_data"
    /\ dashboard' = result
    /\ UNCHANGED <<job_summary, mill_data, ct_milling_data, daily_operations,
                   equipment_usage, workbook, args, notice>>

NextReuse ==
    \/ ProcessUploadedFileAgain
    \/ GetDemoDataAgain

SpecReuse == Init /\ [][NextReuse]_vars

\* the extraction of one workbook by an instance that held nothing before
FreshFields(up) ==
    [ job_summary |-> ExtractJobInfoFromUploaded(up.gi),
      mill_data |-> ExtractMillData(up.mill, up.mill_draws),
      ct_milling_data |-> ExtractCTMillingData(up.ct, up.ct_draws),
      daily_operations |-> ServicePlans(up.sp, up.day_draws, 1),
      equipment_usage |-> ExtractEquipmentFromUploaded(up.ft, up.tool_draws) ]

FreshResult(up) ==
    LET f == FreshFields(up)
        analysis == GenerateFrequencyAnalysis(f.job_summary, f.mill_data,
                        f.ct_milling_data, f.daily_operations,
                        f.equipment_usage)
    IN  IF AnalysisRaised(analysis) THEN GetDemoData ELSE analysis

C28_EquipmentListed ==
    (Processed /\ outcome = "returned" /\ result # GetDemoData) =>
        \A i \in 1..Len(result.daily_breakdown) :
            \A j \in 1..Len(result.daily_breakdown[i].equipment) :
                result.daily_breakdown[i].equipment[j]
                    \in DOMAIN result.equipment_usage

\* C29: the first recommendation is the "Excellent drilling performance"
\* advisory only when drilling_efficiency is 85, and is the "exceeds 45
\* minutes" warning whenever drilling_efficiency is 75, for every mill data
\* (none, and an average of exactly 45 minutes, included).
C29_AdvisoryAgreesWithTier ==
    Computed =>
        /\ Recs[1] = DrillTimeExcellent
             => result.efficiency_metrics.drilling_efficiency = 85
        /\ result.efficiency_metrics.drilling_efficiency = 75
             => Recs[1] = DrillTimeWarning

\* What does hold: the two agree when there is mill data whose average
\* drill time is not exactly 45 minutes
C29_AgreesOffThreshold ==
    (Computed /\ MillCount > 0 /\ MillTimeSum # 450 * MillCount) =>
        /\ Recs[1] = DrillTimeExcellent
             <=> result.efficiency_metrics.drilling_efficiency = 85
        /\ Recs[1] = DrillTimeWarning
             <=> result.efficiency_metrics.drilling_efficiency = 75

ExtractedResult == Processed /\ outcome = "returned" /\ result # GetDemoData

\* equipment_utilization (hundredths of a percent) times 15, less the
\* number of equipment records in hundredths of a percent
UtilizationRest ==
    result.efficiency_metrics.equipment_utilization * 15
      - Cardinality(DOMAIN equipment_usage) * 100 * 100

RangesHold ==
    LET ops == result.operational_frequency
        eq == result.equipment_frequency
        eff == result.efficiency_metrics
        mill == result.mill_performance
    IN  /\ DOMAIN ops # {} => ops.total_operational_days <= 10
        /\ DOMAIN eq # {} =>
             /\ 0 <= eq.tools_with_issues
             /\ eq.tools_with_issues <= eq.total_tools_deployed
             /\ eq.total_tools_deployed <= 15
             /\ eq.deployment_success_rate \in 0..(100 * 100)
        /\ eff.equipment_utilization \in 0..(100 * 100)
        /\ DOMAIN mill # {} => mill.success_rate \in 0..(100 * 10)

\* C30 as stated: the ranges hold and equipment_utilization is exactly the
\* number of equipment records / 15 * 100.
C30_RangesExactUtilization ==
    ExtractedResult => RangesHold /\ UtilizationRest = 0

\* C30: in every result computed after extraction total_operational_days
\* is at most 10, 0 <= tools_with_issues <= total_tools_deployed <= 15,
\* deployment_success_rate and equipment_utilization lie in 0..100,
\* mill_performance.success_rate, when present, lies in 0..100, and
\* equipment_utilization is the number of equipment records / 15 * 100
\* rounded to 2 decimals.
C30_RangesRoundedUtilization ==
    ExtractedResult =>
        /\ RangesHold
        /\ 2 * UtilizationRest <= 15 /\ 2 * UtilizationRest >= 0 - 15

\* one tool sheet, whose tool has issues: 6.67 percent utilization
C30_Witness ==
    /\ ExtractedResult
    /\ Cardinality(DOMAIN equipment_usage) = 1
    /\ result.efficiency_metrics.equipment_utilization = 667
    /\ result.equipment_frequency.tools_with_issues = 1
    /\ result.equipment_frequency.deployment_success_rate = 0

=============================================================================
